---------------------------- MODULE Spec2Model ----------------------------
(***************************************************************************)
(* A model of graph.js: the expression compiler (ExpressionParser.parse),  *)
(* the evaluator it produces, the analysers of FunctionAnalyzer, the       *)
(* handler that swaps the compiled function in (updateFunction) and the    *)
(* scan for vertical asymptotes (drawAsymptotes).                          *)
(*                                                                         *)
(* Text is modelled by TLA+ strings, one JavaScript UTF-16 unit per        *)
(* character; numbers by exact rationals together with the IEEE specials  *)
(* (NaN, +Infinity, -Infinity, -0).                                        *)
(***************************************************************************)
EXTENDS Integers, Sequences, FiniteSets, TLC

VARIABLES
    pc,              \* position of the modelled run
    raw,             \* the text handed to ExpressionParser.parse
    trace,           \* the successive values of parse's local `expression`
    func,            \* what parse returned (the compiled function) or NoFunc
    thrown,          \* the message of the Error parse threw, or ""
    evalX, evalY,    \* argument and result of the last ExpressionParser.evaluate
    symmetry,        \* the result of the last FunctionAnalyzer.checkSymmetry
    canvasWidth,     \* canvas.width, state outside the compiled function
    canvasHeight,    \* canvas.height
    inputValue,      \* expressionInput.value
    currentFunction, \* the global currentFunction
    currentExpression, \* the global currentExpression
    errorMessage,    \* the errorMessage element: its text and whether it is displayed
    rendered,        \* the currentFunction the last render() read and drew (NoFunc: none)
    analysed,        \* the analysis panel: whether it shows, and what analyzeFunction received
    mouseCoord,      \* the global mouseCoord
    gridSize,        \* the global gridSize
    gridDimensions,  \* the global gridDimensions
    drift,           \* the rounding error of the first x += step of a loop
    loop,            \* the loop that is running: its variable x and its constants
    locals,          \* the variables the running loop updates
    answer           \* what the last analyser or scan returned

vars == <<pc, raw, trace, func, thrown, evalX, evalY, symmetry, canvasWidth, canvasHeight,
          inputValue, currentFunction, currentExpression, errorMessage,
          rendered, analysed, mouseCoord, gridSize, gridDimensions,
          drift, loop, locals, answer>>

----------------------------------------------------------------------------
(* Characters and strings *)

CharAt(s, i) == SubSeq(s, i, i)

Digits == {"0", "1", "2", "3", "4", "5", "6", "7", "8", "9"}

LowerSeq == "abcdefghijklmnopqrstuvwxyz"

UpperSeq == "ABCDEFGHIJKLMNOPQRSTUVWXYZ"

LowerLetters == {CharAt(LowerSeq, i) : i \in 1..Len(LowerSeq)}

UpperLetters == {CharAt(UpperSeq, i) : i \in 1..Len(UpperSeq)}

IsDigit(c) == c \in Digits

\* the regular expression class [a-z]
IsLower(c) == c \in LowerLetters

\* the regular expression class \w
IsWordChar(c) == c \in Digits \cup LowerLetters \cup UpperLetters \cup {"_"}

IsWordAt(s, i) == i >= 1 /\ i <= Len(s) /\ IsWordChar(CharAt(s, i))

\* the assertion \b just before character i of s
WordBoundary(s, i) == IsWordAt(s, i - 1) # IsWordAt(s, i)

\* s has the text t at position i
HasAt(s, i, t) == i >= 1 /\ i + Len(t) - 1 <= Len(s) /\ SubSeq(s, i, i + Len(t) - 1) = t

Contains(s, t) == \E i \in 1..Len(s) : HasAt(s, i, t)

IsSpace(c) == c = " "

RECURSIVE TrimLeft(_)
TrimLeft(s) ==
    IF s # "" /\ IsSpace(CharAt(s, 1)) THEN TrimLeft(SubSeq(s, 2, Len(s))) ELSE s

RECURSIVE TrimRight(_)
TrimRight(s) ==
    IF s # "" /\ IsSpace(CharAt(s, Len(s))) THEN TrimRight(SubSeq(s, 1, Len(s) - 1)) ELSE s

\* String.prototype.trim
Trim(s) == TrimRight(TrimLeft(s))

ToLowerChar(c) ==
    IF c \in UpperLetters
    THEN CharAt(LowerSeq, CHOOSE i \in 1..Len(UpperSeq) : CharAt(UpperSeq, i) = c)
    ELSE c

RECURSIVE toLowerCase(_)
toLowerCase(s) ==
    IF s = "" THEN "" ELSE ToLowerChar(CharAt(s, 1)) \o toLowerCase(SubSeq(s, 2, Len(s)))

----------------------------------------------------------------------------
(* The regular expressions of parse and String.prototype.replace with /g *)

Pat(k, name, to) == [k |-> k, name |-> name, to |-> to]

\* first index >= i of a ")" in s, or 0
RECURSIVE FirstClose(_, _)
FirstClose(s, i) ==
    IF i > Len(s) THEN 0
    ELSE IF CharAt(s, i) = ")" THEN i
    ELSE FirstClose(s, i + 1)

\* index of the last character of the match of p that starts at i, or 0
MatchEnd(p, s, i) ==
    CASE p.k = "caret" ->                       \* /\^/g
           IF CharAt(s, i) = "^" THEN i ELSE 0
      [] p.k = "word" ->                        \* /\bname\b/g
           IF WordBoundary(s, i) /\ HasAt(s, i, p.name)
              /\ WordBoundary(s, i + Len(p.name))
           THEN i + Len(p.name) - 1 ELSE 0
      [] p.k = "head" ->                        \* /\bname\(/g
           IF WordBoundary(s, i) /\ HasAt(s, i, p.name \o "(")
           THEN i + Len(p.name) ELSE 0
      [] p.k = "full" ->                        \* /\bname\(([^)]+)\)/g
           IF WordBoundary(s, i) /\ HasAt(s, i, p.name \o "(")
           THEN LET q == FirstClose(s, i + Len(p.name) + 1)
                IN  IF q > i + Len(p.name) + 1 THEN q ELSE 0
           ELSE 0
      [] p.k = "digitLetter" ->                 \* /(\d)([a-z])/g
           IF i < Len(s) /\ IsDigit(CharAt(s, i)) /\ IsLower(CharAt(s, i + 1))
           THEN i + 1 ELSE 0
      [] p.k = "closeLetter" ->                 \* /\)([a-z])/g
           IF i < Len(s) /\ CharAt(s, i) = ")" /\ IsLower(CharAt(s, i + 1))
           THEN i + 1 ELSE 0
      [] p.k = "digitOpen" ->                   \* /(\d)\(/g
           IF i < Len(s) /\ IsDigit(CharAt(s, i)) /\ CharAt(s, i + 1) = "("
           THEN i + 1 ELSE 0
      [] p.k = "closeDigit" ->                  \* /\)(\d)/g
           IF i < Len(s) /\ CharAt(s, i) = ")" /\ IsDigit(CharAt(s, i + 1))
           THEN i + 1 ELSE 0
      [] p.k = "singleOpen" ->                  \* /\b([a-z])\(/g
           IF i < Len(s) /\ WordBoundary(s, i) /\ IsLower(CharAt(s, i))
              /\ CharAt(s, i + 1) = "("
           THEN i + 1 ELSE 0

\* the replacement text for the match s[i..j] of p
Subst(p, s, i, j) ==
    CASE p.k \in {"caret", "word", "head"} -> p.to
      [] p.k = "full" ->                        \* "(1/Math.sin($1))"
           "(1/Math." \o p.to \o "(" \o SubSeq(s, i + Len(p.name) + 1, j - 1) \o "))"
      [] p.k \in {"digitLetter", "closeLetter", "digitOpen", "closeDigit", "singleOpen"} ->
           CharAt(s, i) \o "*" \o CharAt(s, j)

RECURSIVE ReplaceFrom(_, _, _)
ReplaceFrom(p, s, i) ==
    IF i > Len(s) THEN ""
    ELSE LET j == MatchEnd(p, s, i)
         IN  IF j > 0
             THEN Subst(p, s, i, j) \o ReplaceFrom(p, s, j + 1)
             ELSE CharAt(s, i) \o ReplaceFrom(p, s, i + 1)

\* s.replace(p, ...) for a global regular expression p
ReplaceAll(p, s) == ReplaceFrom(p, s, 1)

----------------------------------------------------------------------------
(* ExpressionParser: the constants and functions tables *)

PiText == "3.141592653589793"

EText == "2.718281828459045"

\* Object.entries(this.constants), as name and value.toString()
ConstantEntries == << <<"pi", PiText>>, <<"e", EText>> >>

\* Object.keys(this.functions), in insertion order
FunctionNames ==
    <<"sin", "cos", "tan", "csc", "sec", "cot", "log", "ln", "sqrt", "abs",
      "floor", "ceil", "round", "exp">>

\* the replace that the loop body does for the function `name`
FunctionPattern(name) ==
    CASE name = "log" -> Pat("head", name, "Math.log10(")
      [] name = "ln"  -> Pat("head", name, "Math.log(")
      [] name = "csc" -> Pat("full", name, "sin")
      [] name = "sec" -> Pat("full", name, "cos")
      [] name = "cot" -> Pat("full", name, "tan")
      [] OTHER        -> Pat("head", name, "Math." \o name \o "(")

RECURSIVE ReplaceConstants(_, _)
ReplaceConstants(s, k) ==
    IF k > Len(ConstantEntries) THEN s
    ELSE ReplaceConstants(
             ReplaceAll(Pat("word", ConstantEntries[k][1], ConstantEntries[k][2]), s),
             k + 1)

RECURSIVE ReplaceFunctions(_, _)
ReplaceFunctions(s, k) ==
    IF k > Len(FunctionNames) THEN s
    ELSE ReplaceFunctions(ReplaceAll(FunctionPattern(FunctionNames[k]), s), k + 1)

\* the five implicit-multiplication replaces, in the order of the code
ImplicitPatterns ==
    <<"digitLetter", "closeLetter", "digitOpen", "closeDigit", "singleOpen">>

RECURSIVE InsertMultiplication(_, _)
InsertMultiplication(s, k) ==
    IF k > Len(ImplicitPatterns) THEN s
    ELSE InsertMultiplication(ReplaceAll(Pat(ImplicitPatterns[k], "", ""), s), k + 1)

\* the values `expression` takes in parse up to "Final expression"
Rewrite(expression) ==
    LET lowered   == toLowerCase(expression)
        powered   == ReplaceAll(Pat("caret", "", "**"), lowered)
        constants == ReplaceConstants(powered, 1)
        functions == ReplaceFunctions(constants, 1)
        final     == InsertMultiplication(functions, 1)
    IN  [lowered |-> lowered, powered |-> powered, constants |-> constants,
         functions |-> functions, final |-> final]

----------------------------------------------------------------------------
(* parse: the parenthesis validation *)

\* a variant of the for loop without the throw inside it: only the counter
\* after the last character is looked at
RECURSIVE ScanParensToEnd(_, _, _)
ScanParensToEnd(s, i, openParens) ==
    IF i > Len(s) THEN openParens
    ELSE ScanParensToEnd(s, i + 1,
             IF CharAt(s, i) = "(" THEN openParens + 1
             ELSE IF CharAt(s, i) = ")" THEN openParens - 1
             ELSE openParens)

\* the for loop: the counter after the last character, or -1 when the loop threw
RECURSIVE ScanParens(_, _, _)
ScanParens(s, i, openParens) ==
    IF i > Len(s) THEN openParens
    ELSE LET c == CharAt(s, i)
             n == IF c = "(" THEN openParens + 1
                  ELSE IF c = ")" THEN openParens - 1
                  ELSE openParens
         IN  IF n < 0 THEN -1 ELSE ScanParens(s, i + 1, n)

\* whether the validation throws "Mismatched parentheses"
MismatchedParens(s) == ScanParens(s, 1, 0) # 0

----------------------------------------------------------------------------
(* JavaScript values.  A number is an exact rational ("num"), negative     *)
(* zero ("nz"), NaN, +Infinity ("pinf"), -Infinity ("ninf"), or "opq": a   *)
(* finite non-zero double whose magnitude the model does not track (the    *)
(* result of a transcendental function, a 16-digit literal), with its sign *)
(* n (0: not tracked) and the term t that produced it.  "unk" is a number  *)
(* the model cannot classify; no checked input produces it (ModelCovers).  *)
(* The other kinds are what is not a number: "func", "obj", "undef",       *)
(* "null", "str", and "throw" for an evaluation that raised.               *)

V(k, n, d, t) == [k |-> k, n |-> n, d |-> d, t |-> t]

Abs(n) == IF n < 0 THEN -n ELSE n

RECURSIVE GCD(_, _)
GCD(a, b) == IF b = 0 THEN a ELSE GCD(b, a % b)

Num(n, d) ==
    LET g == GCD(Abs(n), Abs(d))
        s == IF d < 0 THEN -1 ELSE 1
    IN  V("num", (s * n) \div g, (s * d) \div g, "")

Zero == V("num", 0, 1, "")

One == V("num", 1, 1, "")

NegZero == V("nz", 0, 1, "")

NaN == V("nan", 0, 1, "")

PInf == V("pinf", 0, 1, "")

NInf == V("ninf", 0, 1, "")

Unk == V("unk", 0, 1, "")

Opq(s, t) == V("opq", s, 1, t)

Throw == V("throw", 0, 1, "")

Undefined == V("undef", 0, 1, "")

Null == V("null", 0, 1, "")

FuncV(name) == V("func", 0, 1, name)

ObjV(name) == V("obj", 0, 1, name)

StrV == V("str", 0, 1, "")

\* typeof v === "number"
IsNumberType(v) == v.k \in {"num", "nz", "nan", "pinf", "ninf", "opq", "unk"}

\* isFinite(v), for a number
isFinite(v) == v.k \in {"num", "nz", "opq"}

isNaN(v) == v.k = "nan"

IsInf(v) == v.k \in {"pinf", "ninf"}

IsZero(v) == v.k = "nz" \/ (v.k = "num" /\ v.n = 0)

\* the sign of a number that has one: 1, -1, or 0 when the model does not know it
Sgn(v) ==
    IF v.k = "opq" THEN v.n
    ELSE IF v.k \in {"nz", "ninf"} \/ (v.k = "num" /\ v.n < 0) THEN -1
    ELSE 1

SignedZero(s) == IF s = 0 THEN Unk ELSE IF s < 0 THEN NegZero ELSE Zero

SignedInf(s) == IF s = 0 THEN Unk ELSE IF s < 0 THEN NInf ELSE PInf

Term(v) == IF v.k = "opq" THEN v.t ELSE ToString(v.n) \o "/" \o ToString(v.d)

\* ToNumber of the values the model has: null converts to 0, what else is not
\* a number to NaN
ToNumber(v) == IF IsNumberType(v) THEN v ELSE IF v.k = "null" THEN Zero ELSE NaN

NumNeg(a) ==
    IF a.k \in {"nan", "unk"} THEN a
    ELSE IF a.k = "num" THEN (IF a.n = 0 THEN NegZero ELSE Num(-a.n, a.d))
    ELSE IF a.k = "nz" THEN Zero
    ELSE IF a.k = "pinf" THEN NInf
    ELSE IF a.k = "ninf" THEN PInf
    ELSE Opq(-a.n, "-" \o a.t)

NumAdd(a, b) ==
    IF a.k = "nan" \/ b.k = "nan" THEN NaN
    ELSE IF a.k = "unk" \/ b.k = "unk" THEN Unk
    ELSE IF IsInf(a) /\ IsInf(b) THEN (IF a.k = b.k THEN a ELSE NaN)
    ELSE IF IsInf(a) THEN a
    ELSE IF IsInf(b) THEN b
    ELSE IF IsZero(a) /\ IsZero(b) THEN (IF a.k = "nz" /\ b.k = "nz" THEN NegZero ELSE Zero)
    ELSE IF IsZero(a) THEN b
    ELSE IF IsZero(b) THEN a
    ELSE IF a.k = "num" /\ b.k = "num" THEN Num(a.n * b.d + b.n * a.d, a.d * b.d)
    ELSE IF a.k = "opq" /\ b.k = "opq" THEN Unk
    ELSE Opq(IF Sgn(a) = Sgn(b) THEN Sgn(a) ELSE 0, "(" \o Term(a) \o "+" \o Term(b) \o ")")

NumSub(a, b) == NumAdd(a, NumNeg(b))

NumMul(a, b) ==
    IF a.k = "nan" \/ b.k = "nan" THEN NaN
    ELSE IF (IsInf(a) /\ IsZero(b)) \/ (IsZero(a) /\ IsInf(b)) THEN NaN
    ELSE IF a.k = "unk" \/ b.k = "unk" THEN Unk
    ELSE IF IsInf(a) \/ IsInf(b) THEN SignedInf(Sgn(a) * Sgn(b))
    ELSE IF IsZero(a) \/ IsZero(b) THEN SignedZero(Sgn(a) * Sgn(b))
    ELSE IF a.k = "num" /\ b.k = "num" THEN Num(a.n * b.n, a.d * b.d)
    ELSE Opq(Sgn(a) * Sgn(b), "(" \o Term(a) \o "*" \o Term(b) \o ")")

NumDiv(a, b) ==
    IF a.k = "nan" \/ b.k = "nan" THEN NaN
    ELSE IF (IsInf(a) /\ IsInf(b)) \/ (IsZero(a) /\ IsZero(b)) THEN NaN
    ELSE IF a.k = "unk" \/ b.k = "unk" THEN Unk
    ELSE IF IsZero(b) \/ IsInf(a) THEN SignedInf(Sgn(a) * Sgn(b))
    ELSE IF IsInf(b) \/ IsZero(a) THEN SignedZero(Sgn(a) * Sgn(b))
    ELSE IF a.k = "num" /\ b.k = "num" THEN Num(a.n * b.d, a.d * b.n)
    ELSE Opq(Sgn(a) * Sgn(b), "(" \o Term(a) \o "/" \o Term(b) \o ")")

RECURSIVE IntPow(_, _)
IntPow(b, e) == IF e = 0 THEN 1 ELSE b * IntPow(b, e - 1)

\* the largest base and exponent whose power the model computes exactly
PowBaseLimit == 1000

PowExpLimit == 3

IsOdd(n) == n % 2 = 1

NumPow(a, b) ==
    IF b.k = "nan" THEN NaN
    ELSE IF IsZero(b) THEN One
    ELSE IF a.k = "nan" THEN NaN
    ELSE IF a.k = "unk" \/ b.k = "unk" THEN Unk
    ELSE IF b.k = "num" /\ b.d = 1
    THEN LET e == Abs(b.n) IN
         IF IsZero(a)
         THEN (IF b.n > 0
               THEN (IF a.k = "nz" /\ IsOdd(e) THEN NegZero ELSE Zero)
               ELSE (IF a.k = "nz" /\ IsOdd(e) THEN NInf ELSE PInf))
         ELSE IF IsInf(a)
         THEN (IF b.n > 0
               THEN (IF a.k = "ninf" /\ IsOdd(e) THEN NInf ELSE PInf)
               ELSE (IF a.k = "ninf" /\ IsOdd(e) THEN NegZero ELSE Zero))
         ELSE IF a.k = "opq"
         THEN Opq(IF IsOdd(e) THEN a.n ELSE 1, "(" \o a.t \o "**" \o Term(b) \o ")")
         ELSE IF Abs(a.n) > PowBaseLimit \/ a.d > PowBaseLimit \/ e > PowExpLimit
         THEN Unk
         ELSE IF b.n > 0 THEN Num(IntPow(a.n, e), IntPow(a.d, e))
         ELSE Num(IntPow(a.d, e), IntPow(a.n, e))
    ELSE IF b.k \in {"num", "opq"} /\ a.k \in {"num", "opq"} /\ Sgn(a) = 1
    THEN Opq(1, "(" \o Term(a) \o "**" \o Term(b) \o ")")
    ELSE Unk

----------------------------------------------------------------------------
(* The Math functions the rewritten text can name *)

MathNames ==
    {"sin", "cos", "tan", "log10", "log", "sqrt", "abs", "floor", "ceil", "round", "exp"}

\* |n/d| < a/b, for b > 0
AbsLess(v, a, b) == Abs(v.n) * b < a * v.d

SinSign(v) ==
    LET s == IF v.n < 0 THEN -1 ELSE 1
    IN  IF AbsLess(v, 314, 100) THEN s
        ELSE IF ~AbsLess(v, 315, 100) /\ AbsLess(v, 628, 100) THEN -s
        ELSE 0

CosSign(v) ==
    IF AbsLess(v, 157, 100) THEN 1
    ELSE IF ~AbsLess(v, 158, 100) /\ AbsLess(v, 471, 100) THEN -1
    ELSE 0

SquareRootLimit == 4000

HasRoot(n) == \E r \in 0..SquareRootLimit : r * r = n

Root(n) == CHOOSE r \in 0..SquareRootLimit : r * r = n

\* log10 of the powers of ten the model knows
Log10Exact(v) ==
    IF v.d = 1 /\ v.n \in {1, 10, 100, 1000}
    THEN (CASE v.n = 1 -> 0 [] v.n = 10 -> 1 [] v.n = 100 -> 2 [] v.n = 1000 -> 3)
    ELSE IF v.n = 1 /\ v.d \in {10, 100, 1000}
    THEN (CASE v.d = 10 -> -1 [] v.d = 100 -> -2 [] v.d = 1000 -> -3)
    ELSE 99

\* the largest |x| for which Math.exp(x) is a finite non-zero double
ExpLimit == 700

MathCall(name, arg) ==
    LET v == ToNumber(arg)
        t == name \o "(" \o Term(v) \o ")"
    IN
    IF v.k = "nan" THEN NaN
    ELSE IF v.k = "unk" THEN Unk
    ELSE IF name = "abs"
    THEN (IF IsZero(v) THEN Zero
          ELSE IF IsInf(v) THEN PInf
          ELSE IF v.k = "num" THEN Num(Abs(v.n), v.d)
          ELSE Opq(1, t))
    ELSE IF name \in {"floor", "ceil", "round"}
    THEN (IF v.k \in {"nz", "pinf", "ninf"} THEN v
          ELSE IF v.k = "opq" THEN Unk
          ELSE LET r == IF name = "floor" THEN v.n \div v.d
                        ELSE IF name = "ceil" THEN -((-v.n) \div v.d)
                        ELSE (2 * v.n + v.d) \div (2 * v.d)
               IN  IF r = 0 /\ v.n < 0 THEN NegZero ELSE Num(r, 1))
    ELSE IF name = "sqrt"
    THEN (IF IsZero(v) \/ v.k = "pinf" THEN v
          ELSE IF Sgn(v) = -1 THEN NaN
          ELSE IF Sgn(v) = 0 THEN Unk
          ELSE IF v.k = "num" /\ HasRoot(v.n) /\ HasRoot(v.d) THEN Num(Root(v.n), Root(v.d))
          ELSE Opq(1, t))
    ELSE IF name \in {"sin", "tan"}
    THEN (IF IsZero(v) THEN v
          ELSE IF IsInf(v) THEN NaN
          ELSE IF v.k = "opq" THEN Opq(0, t)
          ELSE Opq(IF name = "sin" THEN SinSign(v) ELSE SinSign(v) * CosSign(v), t))
    ELSE IF name = "cos"
    THEN (IF IsZero(v) THEN One
          ELSE IF IsInf(v) THEN NaN
          ELSE IF v.k = "opq" THEN Opq(0, t)
          ELSE Opq(CosSign(v), t))
    ELSE IF name = "exp"
    THEN (IF IsZero(v) THEN One
          ELSE IF v.k = "pinf" THEN PInf
          ELSE IF v.k = "ninf" THEN Zero
          ELSE IF v.k = "num" /\ AbsLess(v, ExpLimit, 1) THEN Opq(1, t)
          ELSE Unk)
    ELSE IF name \in {"log", "log10"}
    THEN (IF IsZero(v) THEN NInf
          ELSE IF v.k = "pinf" THEN PInf
          ELSE IF Sgn(v) = -1 THEN NaN
          ELSE IF v.k = "opq" THEN Unk
          ELSE IF v = One THEN Zero
          ELSE IF name = "log10" /\ Log10Exact(v) # 99 THEN Num(Log10Exact(v), 1)
          ELSE Opq(IF v.n > v.d THEN 1 ELSE -1, t))
    ELSE Unk

\* a binary operator of the compiled text applied to two values
JsBinary(op, a, b) ==
    IF a.k = "throw" \/ b.k = "throw" THEN Throw
    ELSE IF op = "+" /\ ({a.k, b.k} \cap {"func", "obj", "str"} # {}) THEN StrV
    ELSE LET x == ToNumber(a)
             y == ToNumber(b)
         IN  CASE op = "+"  -> NumAdd(x, y)
               [] op = "-"  -> NumSub(x, y)
               [] op = "*"  -> NumMul(x, y)
               [] op = "/"  -> NumDiv(x, y)
               [] op = "**" -> NumPow(x, y)

JsUnary(op, a) ==
    IF a.k = "throw" THEN Throw
    ELSE IF op = "-" THEN NumNeg(ToNumber(a))
    ELSE ToNumber(a)

----------------------------------------------------------------------------
(* The text of a compiled function body, read as JavaScript.  The model     *)
(* covers the expression grammar the rewritten text is made of: numeric     *)
(* literals, identifiers (with the escapes that write an upper-case         *)
(* letter), null, parentheses, member access, calls with at most one        *)
(* argument, unary + and -, the binary + - * / **, the comma operator and   *)
(* the assignment of null to the global currentFunction.  A text that      *)
(* leaves this grammar (++, --, a comment, a regular expression literal,    *)
(* another assignment, ...) is reported as "out" and is not among the       *)
(* inputs.                                                                  *)

Tok(ty, s, v) == [ty |-> ty, s |-> s, v |-> v]

EndTok == Tok("end", "", Zero)

DigitSeq == "0123456789"

DigitVal(c) == (CHOOSE i \in 1..10 : CharAt(DigitSeq, i) = c) - 1

RECURSIVE ParseDigits(_, _)
ParseDigits(s, acc) ==
    IF s = "" THEN acc
    ELSE ParseDigits(SubSeq(s, 2, Len(s)), 10 * acc + DigitVal(CharAt(s, 1)))

\* index of the last character of the run of digits that starts at i (i - 1: none)
RECURSIVE DigitsEnd(_, _)
DigitsEnd(s, i) ==
    IF i <= Len(s) /\ IsDigit(CharAt(s, i)) THEN DigitsEnd(s, i + 1) ELSE i - 1

\* the escape \u{4d} or \u{5d}, d a digit, starts at i: an upper-case letter
\* written in an identifier
IsEscapeAt(s, i) ==
    /\ HasAt(s, i, "\\u{") /\ i + 5 <= Len(s) /\ CharAt(s, i + 5) = "}"
    /\ IsDigit(CharAt(s, i + 4))
    /\ \/ CharAt(s, i + 3) = "4" /\ CharAt(s, i + 4) # "0"
       \/ CharAt(s, i + 3) = "5"

\* the letter the escape at i stands for: code 0x41 is A
EscapedLetter(s, i) ==
    CharAt(UpperSeq, 16 * (DigitVal(CharAt(s, i + 3)) - 4) + DigitVal(CharAt(s, i + 4)))

\* index of the last character of the identifier that starts at i (i - 1: none)
RECURSIVE WordEnd(_, _)
WordEnd(s, i) ==
    IF IsWordAt(s, i) THEN WordEnd(s, i + 1)
    ELSE IF IsEscapeAt(s, i) THEN WordEnd(s, i + 6)
    ELSE i - 1

\* the name the identifier s[i..b] stands for, its escapes replaced
RECURSIVE WordName(_, _, _)
WordName(s, i, b) ==
    IF i > b THEN ""
    ELSE IF IsEscapeAt(s, i) THEN EscapedLetter(s, i) \o WordName(s, i + 6, b)
    ELSE CharAt(s, i) \o WordName(s, i + 1, b)

\* the longest literal whose value the model keeps as an exact rational
MaxLiteralDigits == 8

\* the value of the decimal literal with integer digits ip and fraction digits fp
LiteralValue(ip, fp) ==
    LET all == ip \o fp
    IN  IF Len(all) > MaxLiteralDigits
        THEN Opq(1, ip \o "." \o fp)
        ELSE Num(ParseDigits(all, 0), IntPow(10, Len(fp)))

\* the token that starts at i and the index of its last character
NextToken(s, i) ==
    LET c == CharAt(s, i)
        c2 == IF i < Len(s) THEN CharAt(s, i + 1) ELSE ""
    IN
    IF IsDigit(c) \/ (c = "." /\ IsDigit(c2))
    THEN LET a == DigitsEnd(s, i)                      \* integer digits s[i..a]
             dot == a < Len(s) /\ CharAt(s, a + 1) = "."
             b == IF dot THEN DigitsEnd(s, a + 2) ELSE a
             ip == SubSeq(s, i, a)
             fp == IF dot THEN SubSeq(s, a + 2, b) ELSE ""
             after == IF b < Len(s) THEN CharAt(s, b + 1) ELSE ""
         IN  IF Len(ip) > 1 /\ CharAt(ip, 1) = "0"
             THEN <<Tok("out", ip, Zero), b>>          \* legacy octal
             ELSE IF after # "" /\ (IsWordChar(after) \/ after = "$")
             THEN <<Tok("err", SubSeq(s, i, b), Zero), b>>
             ELSE <<Tok("num", SubSeq(s, i, b), LiteralValue(ip, fp)), b>>
    ELSE IF IsWordChar(c) \/ IsEscapeAt(s, i)
    THEN LET b == WordEnd(s, i) IN <<Tok("id", WordName(s, i, b), Zero), b>>
    ELSE IF c \in {"+", "-"}
    THEN (IF c2 = c \/ c2 = "=" THEN <<Tok("out", c \o c2, Zero), i + 1>>
          ELSE <<Tok("op", c, Zero), i>>)
    ELSE IF c = "*"
    THEN (IF HasAt(s, i, "**=") \/ c2 = "=" THEN <<Tok("out", c \o c2, Zero), i + 1>>
          ELSE IF c2 = "*" THEN <<Tok("op", "**", Zero), i + 1>>
          ELSE <<Tok("op", c, Zero), i>>)
    ELSE IF c = "/"
    THEN (IF c2 \in {"/", "*", "="} THEN <<Tok("out", c \o c2, Zero), i + 1>>
          ELSE <<Tok("op", c, Zero), i>>)
    ELSE IF c = "="
    THEN (IF c2 \in {"=", ">"} THEN <<Tok("out", c \o c2, Zero), i + 1>>
          ELSE <<Tok("op", c, Zero), i>>)
    ELSE IF c \in {"(", ")", ".", ","}
    THEN <<Tok("op", c, Zero), i>>
    ELSE <<Tok("out", c, Zero), i>>

RECURSIVE TokensFrom(_, _)
TokensFrom(s, i) ==
    IF i > Len(s) THEN <<>>
    ELSE IF IsSpace(CharAt(s, i)) THEN TokensFrom(s, i + 1)
    ELSE LET n == NextToken(s, i) IN <<n[1]>> \o TokensFrom(s, n[2] + 1)

Tokenize(s) == TokensFrom(s, 1)

TokAt(t, p) == IF p <= Len(t) THEN t[p] ELSE EndTok

IsOp(tok, o) == tok.ty = "op" /\ tok.s = o

\* what evaluating a (sub)expression gives: "ok" with the value, the index of
\* the next token and whether it assigned null to the global currentFunction
\* (fx), or "syntax", or "out"
R(st, v, p) == [st |-> st, v |-> v, p |-> p, fx |-> FALSE]

\* the result with value v, ending before token p, of an operation whose
\* operands were read as a and then r: r is not evaluated when a raised
Then(a, r, v, p) ==
    [st |-> "ok", v |-> v, p |-> p, fx |-> a.fx \/ (a.v.k # "throw" /\ r.fx)]

\* the scope of the function body: the parameter x, then the globals
Lookup(name, env) ==
    IF name = "x" THEN env.x
    ELSE IF name = "null" THEN Null
    ELSE IF name = "Math" THEN ObjV("Math")
    ELSE IF name = "canvas" THEN ObjV("canvas")
    ELSE IF name = "currentFunction" THEN Unk
    ELSE Throw                                          \* ReferenceError

Member(o, name, env) ==
    IF o.k = "throw" THEN Throw
    ELSE IF o.k \in {"undef", "null"} THEN Throw        \* TypeError
    ELSE IF o = ObjV("Math") /\ name \in MathNames THEN FuncV(name)
    ELSE IF o = ObjV("canvas") /\ name = "width" THEN Num(env.w, 1)
    ELSE Unk

Call(f, args) ==
    IF f.k = "throw" THEN Throw
    ELSE IF Len(args) > 0 /\ args[1].k = "throw" THEN Throw
    ELSE IF f.k = "func" THEN MathCall(f.t, IF Len(args) = 0 THEN Undefined ELSE args[1])
    ELSE IF f.k = "unk" THEN Unk
    ELSE Throw                                          \* TypeError: not a function

\* The recursive-descent reading of the token sequence t, one case per
\* nonterminal nt.  For "primary", "unary", "exp", "mul", "expr", "assign" and
\* "comma", a is the index of the first token; for "postRest", "mulRest",
\* "addRest" and "commaRest", a is the result for the operand read so far.
\* "program" is the whole text: the initializer of `const result` and then
\* the end of the tokens.
RECURSIVE Read(_, _, _, _)
Read(nt, t, a, env) ==
    CASE nt = "primary" ->
           LET tok == TokAt(t, a)
           IN  IF tok.ty = "num" THEN R("ok", tok.v, a + 1)
               ELSE IF tok.ty = "id" THEN R("ok", Lookup(tok.s, env), a + 1)
               ELSE IF IsOp(tok, "(")
               THEN LET r == Read("comma", t, a + 1, env)
                    IN  IF r.st # "ok" THEN r
                        ELSE IF IsOp(TokAt(t, r.p), ")") THEN [r EXCEPT !.p = r.p + 1]
                        ELSE R("syntax", Zero, r.p)
               ELSE IF IsOp(tok, "/") THEN R("out", Zero, a) \* a regular expression literal
               ELSE R("syntax", Zero, a)
      [] nt = "postRest" ->
           IF a.st # "ok" THEN a
           ELSE IF IsOp(TokAt(t, a.p), ".")
           THEN (IF TokAt(t, a.p + 1).ty = "id"
                 THEN Read("postRest", t,
                           [a EXCEPT !.v = Member(a.v, TokAt(t, a.p + 1).s, env),
                                     !.p = a.p + 2], env)
                 ELSE R("syntax", Zero, a.p))
           ELSE IF IsOp(TokAt(t, a.p), "(")
           THEN LET noArg == IsOp(TokAt(t, a.p + 1), ")")
                    arg == IF noArg THEN R("ok", Undefined, a.p + 1)
                           ELSE Read("assign", t, a.p + 1, env)
                IN  IF arg.st # "ok" THEN arg
                    ELSE IF IsOp(TokAt(t, arg.p), ",") THEN R("out", Zero, arg.p)
                    ELSE IF IsOp(TokAt(t, arg.p), ")")
                    THEN Read("postRest", t,
                              Then(a, arg, Call(a.v, IF noArg THEN <<>> ELSE <<arg.v>>),
                                   arg.p + 1),
                              env)
                    ELSE R("syntax", Zero, arg.p)
           ELSE a
      [] nt = "unary" ->
           LET tok == TokAt(t, a)
               r == IF IsOp(tok, "+") \/ IsOp(tok, "-")
                    THEN Read("unary", t, a + 1, env)
                    ELSE Read("postRest", t, Read("primary", t, a, env), env)
           IN  IF IsOp(tok, "+") \/ IsOp(tok, "-")
               THEN (IF r.st # "ok" THEN r ELSE [r EXCEPT !.v = JsUnary(tok.s, r.v)])
               ELSE r
      \* ExponentiationExpression: a unary expression may not be the base of **
      [] nt = "exp" ->
           LET tok == TokAt(t, a)
               b == Read("unary", t, a, env)
           IN  IF b.st = "ok" /\ IsOp(TokAt(t, b.p), "**")
               THEN (IF IsOp(tok, "+") \/ IsOp(tok, "-")
                     THEN R("syntax", Zero, b.p)
                     ELSE LET e == Read("exp", t, b.p + 1, env)
                          IN  IF e.st # "ok" THEN e
                              ELSE Then(b, e, JsBinary("**", b.v, e.v), e.p))
               ELSE b
      [] nt \in {"mulRest", "addRest"} ->
           IF a.st # "ok" THEN a
           ELSE LET tok == TokAt(t, a.p)
                    ops == IF nt = "mulRest" THEN {"*", "/"} ELSE {"+", "-"}
                IN  IF tok.ty = "op" /\ tok.s \in ops
                    THEN LET r == Read(IF nt = "mulRest" THEN "exp" ELSE "mul", t, a.p + 1, env)
                         IN  IF r.st # "ok" THEN r
                             ELSE Read(nt, t, Then(a, r, JsBinary(tok.s, a.v, r.v), r.p), env)
                    ELSE a
      [] nt = "mul" -> Read("mulRest", t, Read("exp", t, a, env), env)
      [] nt = "expr" -> Read("addRest", t, Read("mul", t, a, env), env)
      \* AssignmentExpression: the model has the assignment of null to the
      \* global currentFunction; any other assignment is "out"
      [] nt = "assign" ->
           IF TokAt(t, a).ty = "id" /\ IsOp(TokAt(t, a + 1), "=")
           THEN LET r == Read("assign", t, a + 2, env)
                IN  IF r.st # "ok" THEN r
                    ELSE IF TokAt(t, a).s = "currentFunction" /\ r.v.k \in {"null", "throw"}
                    THEN [r EXCEPT !.fx = r.fx \/ r.v.k = "null"]
                    ELSE R("out", Zero, a)
           ELSE LET r == Read("expr", t, a, env)
                IN  IF r.st = "ok" /\ IsOp(TokAt(t, r.p), "=") THEN R("out", Zero, r.p)
                    ELSE r
      \* Expression: assignment expressions separated by commas, the value of
      \* the last one
      [] nt = "commaRest" ->
           IF a.st # "ok" THEN a
           ELSE IF IsOp(TokAt(t, a.p), ",")
           THEN LET r == Read("assign", t, a.p + 1, env)
                IN  IF r.st # "ok" THEN r
                    ELSE Read("commaRest", t,
                              Then(a, r, IF a.v.k = "throw" THEN Throw ELSE r.v, r.p), env)
           ELSE a
      [] nt = "comma" -> Read("commaRest", t, Read("assign", t, a, env), env)
      [] nt = "program" ->
           IF \E i \in 1..Len(t) : t[i].ty = "out" THEN R("out", Zero, 0)
           ELSE IF \E i \in 1..Len(t) : t[i].ty = "err" THEN R("syntax", Zero, 0)
           ELSE LET r == Read("assign", t, a, env)
                IN  IF r.st # "ok" THEN r
                    ELSE IF IsOp(TokAt(t, r.p), ",") THEN R("out", Zero, r.p)
                    ELSE IF r.p # Len(t) + 1 THEN R("syntax", Zero, r.p)
                    ELSE r

\* `const result = <body>;` read and evaluated with x and canvas.width given
RunBody(body, env) == Read("program", Tokenize(body), 1, env)

----------------------------------------------------------------------------
(* ExpressionParser.parse and ExpressionParser.evaluate *)

\* a compiled function is the text of its body; NoFunc is null
Compiled(body) == [compiled |-> TRUE, body |-> body]

NoFunc == [compiled |-> FALSE, body |-> ""]

Env(x, w) == [x |-> x, w |-> w]

\* new Function("x", "try { const result = <expression>; return result; }
\* catch (e) { return NaN; }") throws a SyntaxError when the text does not parse
FunctionSyntaxError(expression) == RunBody(expression, Env(Zero, 0)).st = "syntax"

\* a call f(x) of the function new Function made: its catch turns what the
\* expression raises into NaN
CatchNaN(v) == IF v.k = "throw" THEN NaN ELSE v

CallFunc(f, x, w) == CatchNaN(RunBody(f.body, Env(x, w)).v)

\* a variant of evaluate's check that also turns an infinite result into NaN
FiniteOrNaN(result) == IF ~IsNumberType(result) \/ IsInf(result) THEN NaN ELSE result

\* evaluate's check of the result: typeof result !== 'number' gives NaN
NumberOrNaN(result) == IF ~IsNumberType(result) THEN NaN ELSE result

\* ExpressionParser.evaluate(func, x), with canvas.width = w around it
evaluate(f, x, w) == NumberOrNaN(CallFunc(f, x, w))

\* const testValues = [0, 1, -1, 0.5, 2]
testValues == <<Zero, One, Num(-1, 1), Num(1, 2), Num(2, 1)>>

\* the probe loop: hasValidResult after testing testValues[k..]
\* typeof testResult === 'number' && isFinite(testResult)
IsValidResult(testResult) == IsNumberType(testResult) /\ isFinite(testResult)

\* a variant of the probe loop that stops after the first test value
HasValidResultAtFirst(f, k, w) == IsValidResult(CallFunc(f, testValues[k], w))

RECURSIVE HasValidResult(_, _, _)
HasValidResult(f, k, w) ==
    IF k > Len(testValues) THEN FALSE
    ELSE IF IsValidResult(CallFunc(f, testValues[k], w)) THEN TRUE
    ELSE HasValidResult(f, k + 1, w)

EmptyMessage == "Expression cannot be empty"

ParensMessage == "Mismatched parentheses"

ProbeMessage == "Expression does not produce valid numeric results"

\* the message of the engine's SyntaxError; its wording is the engine's, and
\* no engine's wording contains "Invalid expression"
SyntaxMessage == "Unexpected token"

InvalidPrefix == "Invalid expression: "

NoTrace == [lowered |-> "", powered |-> "", constants |-> "", functions |-> "", final |-> ""]

Outcome(f, msg, tr) == [func |-> f, thrown |-> msg, trace |-> tr]

\* the body of parse's try block: what it returns, or the message it throws
ParseTry(expression, w) ==
    IF expression = "" \/ Trim(expression) = ""
    THEN Outcome(NoFunc, EmptyMessage, NoTrace)
    ELSE LET tr == Rewrite(expression)
             f  == Compiled(tr.final)
         IN  IF MismatchedParens(tr.final) THEN Outcome(NoFunc, ParensMessage, tr)
             ELSE IF FunctionSyntaxError(tr.final) THEN Outcome(NoFunc, SyntaxMessage, tr)
             ELSE IF ~HasValidResult(f, 1, w) THEN Outcome(NoFunc, ProbeMessage, tr)
             ELSE Outcome(f, "", tr)

\* a variant of the catch block that rethrows every error as it is
CatchMessageAsIs(message) == message

\* parse's catch block: the message of the error that leaves parse
CatchMessage(message) ==
    IF Contains(message, "Invalid expression") THEN message
    ELSE InvalidPrefix \o message

\* parse's try/catch around r, the outcome of the try block
ParseCatch(r) ==
    IF r.thrown = "" THEN r
    ELSE Outcome(NoFunc, CatchMessage(r.thrown), r.trace)

\* ExpressionParser.parse(expression), with canvas.width = w around it
parse(expression, w) == ParseCatch(ParseTry(expression, w))

----------------------------------------------------------------------------
(* FunctionAnalyzer.checkSymmetry *)

\* const testPoints = [-3, -2, -1, -0.5, 0.5, 1, 2, 3]
SymmetryPoints ==
    <<Num(-3, 1), Num(-2, 1), Num(-1, 1), Num(-1, 2), Num(1, 2), One, Num(2, 1), Num(3, 1)>>

\* the tolerance is 1e-10: ToleranceDigits decimal places
ToleranceDigits == 10

RECURSIVE DivPow10(_, _)
DivPow10(y, k) == IF k = 0 THEN y ELSE DivPow10(y \div 10, k - 1)

\* Math.abs(v) < 10^-k for a finite exact v:  |n| * 10^k < d, computed without
\* leaving the 32-bit integers
AbsBelowPow10(v, k) == Abs(v.n) <= DivPow10(v.d - 1, k)

\* a variant of the comparison with the threshold at 0.7
ReachesSeventyPercent(count, totalTests) == 10 * count >= 7 * totalTests

\* evenCount / totalTests >= 0.8
ReachesThreshold(count, totalTests) == 10 * count >= 8 * totalTests

NoCounts == [totalTests |-> 0, evenCount |-> 0, oddCount |-> 0]

\* the body of the loop for the test point x, with fx = f(x) and fNegX = f(-x):
\* the counters c after it
CountPoint(c, x, fx, fNegX) ==
    IF IsZero(x) \/ isNaN(fx) \/ isNaN(fNegX) \/ ~isFinite(fx) \/ ~isFinite(fNegX)
    THEN c
    ELSE [totalTests |-> c.totalTests + 1,
          evenCount |-> c.evenCount
              + (IF AbsBelowPow10(NumSub(fNegX, fx), ToleranceDigits) THEN 1 ELSE 0),
          oddCount |-> c.oddCount
              + (IF AbsBelowPow10(NumSub(fNegX, NumNeg(fx)), ToleranceDigits) THEN 1 ELSE 0)]

\* the loop over testPoints[k..] with the counters so far
RECURSIVE SymmetryLoop(_, _, _, _)
SymmetryLoop(f, w, k, c) ==
    IF k > Len(SymmetryPoints) THEN c
    ELSE SymmetryLoop(f, w, k + 1,
             CountPoint(c, SymmetryPoints[k],
                        evaluate(f, SymmetryPoints[k], w),
                        evaluate(f, NumNeg(SymmetryPoints[k]), w)))

\* the return statement: isEven and isOdd from the counters
SymmetryVerdict(c) ==
    [isEven |-> c.totalTests > 0 /\ ReachesThreshold(c.evenCount, c.totalTests),
     isOdd |-> c.totalTests > 0 /\ ReachesThreshold(c.oddCount, c.totalTests)]

checkSymmetry(f, w) == SymmetryVerdict(SymmetryLoop(f, w, 1, NoCounts))

----------------------------------------------------------------------------
(* The inputs the checks range over *)

\* every text over Sigma of at most MaxLen characters is an input
Sigma == {"x", "2", "(", ")", "-", "/"}

MaxLen == 3

RECURSIVE TextsOfLength(_)
TextsOfLength(n) ==
    IF n = 0 THEN {""} ELSE {s \o c : s \in TextsOfLength(n - 1), c \in Sigma}

ShortTexts == UNION {TextsOfLength(n) : n \in 0..MaxLen}

\* name(x) for each of the fourteen functions
FunctionCalls == {FunctionNames[k] \o "(x)" : k \in 1..Len(FunctionNames)}

\* longer texts: the examples of the documentation and the shapes the rewriting
\* steps distinguish
Corpus ==
    FunctionCalls \cup
    {" ", "  ", " x ", " x^2 ", "X", "x^2", "x^3", "x+1", "2*x", "1/x", "(x+1", "x+1)",
     "x+", "-x^2", "2^-x", "x^2+1", "2*x+3", "1/(x^2+1)", "sqrt(x^2+1)", "exp(-(x^2))",
     "2pi", "2*pi", "pi", "e", "e^x", "pi(x)", "(x)pi", "x*e", "exp", "pie",
     "2sin(x)", "2*sin(x)", "(x)sin(x)", "(x)*sin(x)", "2log(x)", "2*log(x)",
     "sin(2x)", "sin(2*x)", "abs(x)2", "abs(x)*2", "2abs(x)", "2*abs(x)",
     "(x)abs(x)", "(x)*abs(x)", "2(x+1)", "2*(x+1)", "(x+1)2", "(x+1)*2",
     "(x+1)x", "(x+1)*x", "x(x+1)", "(x+1)(x-1)", "asin(x)", "sin(x", "sin()",
     "csc((x)+1)", "sec((x)+1)", "cot((x)+1)", "csc(x)+1", "sec(x)+1", "cot(x)+1",
     "csc((x))", "csc(2(x))", "csc(x+1)", "sec(2*x)", "cot(x/2)", "csc()", "csc(x",
     "1/sin((x)+1)", "1/sin(x)+1", "csc(x)csc(x)", "sec(x)*sec(x)",
     "canvas.width", "x+canvas.width", "canvas", "x.width",
     "(current\\u{46}unction=null,x)",
     "0*x", "x/x", "1/(x-1)", "1/(1-x)", "0-1/x", "x^2+0/(x-1)", "x^3+0/(x-2)",
     "sqrt(0-x^2)", "x^2+x*(x^2-1)*(x^2-4)*(x^2-9)", "x+x^2*(x^2-1)*(x^2-4)*(x^2-9)",
     "abs(x)", "abs(x)/x", "floor(x)", "x^2-x", "1/x^2", "1/x^3"}

\* the widths canvas.width can have (index.html sets it; a script can change it)
CanvasWidths == {400, 800}

\* the arguments evaluate is applied to
SamplePoints ==
    {testValues[k] : k \in 1..Len(testValues)}
        \cup {SymmetryPoints[k] : k \in 1..Len(SymmetryPoints)} \cup {NegZero}

\* the identifiers whose binding in the page the model knows: the parameter,
\* Math and canvas, and the names that are bound to nothing
RECURSIVE OnlyXAndDigits(_)
OnlyXAndDigits(s) ==
    s = "" \/ ((CharAt(s, 1) = "x" \/ IsDigit(CharAt(s, 1))) /\ OnlyXAndDigits(SubSeq(s, 2, Len(s))))

KnownIdentifier(name) ==
    \/ name \in {"x", "Math", "canvas", "width", "pi", "e", "pie", "asin", "null",
                 "currentFunction"}
    \/ name \in MathNames
    \/ \E k \in 1..Len(FunctionNames) : name = FunctionNames[k]
    \/ OnlyXAndDigits(name)

\* the model covers s: the text parse makes of it stays in the modelled
\* grammar and evaluates to classified values at every sample point
ModelCovers(s) ==
    LET body == Rewrite(s).final
        t == Tokenize(body)
    IN  /\ \A i \in 1..Len(t) : t[i].ty = "id" => KnownIdentifier(t[i].s)
        /\ \A x \in SamplePoints : \A w \in CanvasWidths :
               \A r \in {RunBody(body, Env(x, w))} : r.st # "out" /\ r.v.k # "unk"

Inputs == {s \in ShortTexts \cup Corpus : ModelCovers(s)}

\* the inputs whose values at the symmetry points are exact, so that the
\* comparisons of checkSymmetry are decided
ExactAtSymmetryPoints(f, w) ==
    \A k \in 1..Len(SymmetryPoints) : evaluate(f, SymmetryPoints[k], w).k # "opq"

----------------------------------------------------------------------------
(* The compiler and the analysers applied to one input: raw is drawn from   *)
(* Inputs, parse is applied to it, then evaluate and checkSymmetry to the   *)
(* function it returned.                                                    *)

NoSymmetry == [done |-> FALSE, isEven |-> FALSE, isOdd |-> FALSE]

\* mouseCoord = null
NoMouse == [on |-> FALSE, x |-> "", y |-> "", px |-> 0, py |-> 0]

NoAnalysis == [shown |-> FALSE, fn |-> NoFunc, expression |-> ""]

\* the globals and the page as the declarations of the script leave them
Loaded ==
    [currentFunction |-> NoFunc, currentExpression |-> "x",
     errorMessage |-> [shown |-> FALSE, text |-> ""],
     analysed |-> NoAnalysis, rendered |-> NoFunc]

\* the heights canvas.height can have
CanvasHeights == {600}

\* let gridSize = 20
InitialGridSize == 20

\* let gridDimensions = 40
InitialGridDimensions == 40

\* no loop is running
NoLoop ==
    [op |-> "", x |-> Zero, xMax |-> Zero, step |-> Zero, yThreshold |-> Zero, k |-> 0]

\* the variables of the loops as their declarations leave them
NoLocals ==
    [yValues |-> <<>>, restrictions |-> <<>>,
     minY |-> PInf, maxY |-> NInf, hasInfiniteValues |-> FALSE,
     hasPositiveInfinite |-> FALSE, hasNegativeInfinite |-> FALSE, validPoints |-> 0,
     testValues |-> <<>>, asymptotes |-> <<>>]

NoAnswer == [op |-> "", flag |-> FALSE, text |-> "", list |-> <<>>, rule |-> 0]

LoopVars == <<drift, loop, locals, answer>>

LoopIdle == drift = 0 /\ loop = NoLoop /\ locals = NoLocals /\ answer = NoAnswer

UiIdle ==
    /\ inputValue = ""
    /\ currentFunction = Loaded.currentFunction
    /\ currentExpression = Loaded.currentExpression
    /\ errorMessage = Loaded.errorMessage
    /\ rendered = Loaded.rendered
    /\ analysed = Loaded.analysed
    /\ mouseCoord = NoMouse
    /\ gridSize = Num(InitialGridSize, 1)
    /\ gridDimensions = InitialGridDimensions

InitCore ==
    /\ pc = "start"
    /\ raw \in Inputs
    /\ canvasWidth \in CanvasWidths
    /\ canvasHeight \in CanvasHeights
    /\ trace = NoTrace
    /\ func = NoFunc
    /\ thrown = ""
    /\ evalX = Zero
    /\ evalY = Zero
    /\ symmetry = NoSymmetry
    /\ UiIdle
    /\ LoopIdle

UiVars == <<canvasHeight, inputValue, currentFunction, currentExpression, errorMessage,
            rendered, analysed, mouseCoord, gridSize, gridDimensions>>

\* parser.parse(raw)
Parse ==
    /\ pc = "start"
    /\ \E r \in {parse(raw, canvasWidth)} :
           /\ trace' = r.trace
           /\ func' = r.func
           /\ thrown' = r.thrown
    /\ pc' = "parsed"
    /\ UNCHANGED <<raw, canvasWidth, evalX, evalY, symmetry, UiVars, LoopVars>>

\* parser.evaluate(func, x)
Evaluate(x) ==
    /\ pc \in {"parsed", "evaluated"}
    /\ func.compiled
    /\ evalX' = x
    /\ evalY' = evaluate(func, x, canvasWidth)
    /\ pc' = "evaluated"
    /\ UNCHANGED <<raw, canvasWidth, trace, func, thrown, symmetry, UiVars, LoopVars>>

\* analyzer.checkSymmetry(func)
CheckSymmetry ==
    /\ pc = "parsed"
    /\ func.compiled
    /\ ExactAtSymmetryPoints(func, canvasWidth)
    /\ \E r \in {checkSymmetry(func, canvasWidth)} :
           symmetry' = [done |-> TRUE, isEven |-> r.isEven, isOdd |-> r.isOdd]
    /\ pc' = "analysed"
    /\ UNCHANGED <<raw, canvasWidth, trace, func, thrown, evalX, evalY, UiVars, LoopVars>>

NextCore ==
    \/ Parse
    \/ \E x \in SamplePoints : Evaluate(x)
    \/ CheckSymmetry

SpecCore == InitCore /\ [][NextCore]_vars

----------------------------------------------------------------------------
(* The page: updateFunction, the wheel and mouse handlers, render.  One     *)
(* action is one run of a handler; the page is single-threaded, so no       *)
(* handler starts before the previous one has returned.                     *)

\* the globals and elements updateFunction and render work on
Page ==
    [currentFunction |-> currentFunction, currentExpression |-> currentExpression,
     errorMessage |-> errorMessage, analysed |-> analysed, rendered |-> rendered]

\* the arguments isFunction calls the function with
testPoints == {Num(-5, 1), Num(-2, 1), Zero, One, Num(3, 1), Num(5, 1)}

\* the global currentFunction after code that called the function cf with the
\* arguments X: null when one of the calls assigned null to it
AfterCalls(cf, X, w) ==
    IF cf.compiled /\ \E x \in X : RunBody(cf.body, Env(x, w)).fx THEN NoFunc ELSE cf

\* the try block of updateFunction after parser.parse returned f: the analyser
\* is handed f, and render() then reads the global, cf
UpdateParsed(expression, p, f, cf) ==
    [p EXCEPT !.currentFunction = cf,
              !.currentExpression = expression,
              !.errorMessage.shown = FALSE,
              !.analysed = [shown |-> TRUE, fn |-> f, expression |-> expression],
              !.rendered = cf]

\* the try/catch of updateFunction, r being the outcome of parser.parse: the
\* page after it.  render() reads currentFunction last in both branches.
UpdateWith(expression, p, r, w) ==
    IF r.thrown = ""
    THEN UpdateParsed(expression, p, r.func, AfterCalls(r.func, testPoints, w))
    ELSE [p EXCEPT !.errorMessage = [shown |-> TRUE, text |-> r.thrown],
                   !.analysed.shown = FALSE,
                   !.currentFunction = NoFunc,
                   !.rendered = NoFunc]

\* the branch of updateFunction for an empty expression
UpdateEmpty(p) ==
    [p EXCEPT !.currentFunction = NoFunc,
              !.errorMessage.shown = FALSE,
              !.analysed.shown = FALSE,
              !.rendered = NoFunc]

\* updateFunction() with expressionInput.value = value, from the page p
updateFunction(value, p, w) ==
    IF Trim(value) = "" THEN UpdateEmpty(p)
    ELSE UpdateWith(Trim(value), p, parse(Trim(value), w), w)

\* the page p written to the variables
SetPage(p) ==
    /\ currentFunction' = p.currentFunction
    /\ currentExpression' = p.currentExpression
    /\ errorMessage' = p.errorMessage
    /\ analysed' = p.analysed
    /\ rendered' = p.rendered

\* the texts typed into the input
UiInputs ==
    Inputs \cap {"", " ", "x", " x^2 ", "1/x", "x+", "(x+1", "log(x)",
                 "(current\\u{46}unction=null,x)"}

\* the positions of the mouse on the canvas, as (mouseX, mouseY)
MousePositions == {<<400, 300>>, <<433, 287>>}

\* a < b for two finite numbers
Less(a, b) == a.n * b.d < b.n * a.d

\* Math.min and Math.max of two finite numbers
MathMin(a, b) == IF Less(b, a) THEN b ELSE a

MathMax(a, b) == IF Less(a, b) THEN b ELSE a

\* two decimal digits
TwoDigits(n) == (IF n < 10 THEN "0" ELSE "") \o ToString(n)

\* v.toFixed(2) for a finite v: |v| rounded to the nearest hundredth, the
\* larger one when two are as near
toFixed2(v) ==
    (IF v.n < 0 THEN "-" ELSE "")
        \o ToString(((200 * Abs(v.n) + v.d) \div (2 * v.d)) \div 100)
        \o "." \o TwoDigits(((200 * Abs(v.n) + v.d) \div (2 * v.d)) % 100)

\* the largest denominator of gridSize from which the wheel is still turned
MaxGridDenominator == 1

\* the script as it loads: expressionInput.value = "x"; updateFunction();
\* render()
Init ==
    /\ pc = "page"
    /\ raw = ""
    /\ trace = NoTrace
    /\ func = NoFunc
    /\ thrown = ""
    /\ evalX = Zero
    /\ evalY = Zero
    /\ symmetry = NoSymmetry
    /\ canvasWidth \in CanvasWidths
    /\ canvasHeight \in CanvasHeights
    /\ inputValue = "x"
    /\ \E p \in {updateFunction("x", Loaded, canvasWidth)} :
           /\ currentFunction = p.currentFunction
           /\ currentExpression = p.currentExpression
           /\ errorMessage = p.errorMessage
           /\ analysed = p.analysed
           /\ rendered = p.rendered
    /\ mouseCoord = NoMouse
    /\ gridSize = Num(InitialGridSize, 1)
    /\ gridDimensions = InitialGridDimensions
    /\ LoopIdle

CoreVars == <<pc, raw, trace, func, thrown, evalX, evalY, symmetry>>

\* render() with the grid size g: what it reads at `if (currentFunction)`, and
\* the global after the calls of its plotting loop, the first at pixel 0
Render(g) ==
    /\ rendered' = currentFunction
    /\ currentFunction' =
           AfterCalls(currentFunction, {NumDiv(Num(0 - canvasWidth, 2), g)}, canvasWidth)

\* the "input" event: the text of the input is now s, and updateFunction runs
InputEvent(s) ==
    /\ inputValue' = s
    /\ SetPage(updateFunction(s, Page, canvasWidth))
    /\ UNCHANGED <<CoreVars, LoopVars, canvasWidth, canvasHeight, mouseCoord, gridSize, gridDimensions>>

\* a click on the plot button, or the Enter key in the input
PlotClick ==
    /\ SetPage(updateFunction(inputValue, Page, canvasWidth))
    /\ UNCHANGED <<CoreVars, LoopVars, canvasWidth, canvasHeight, inputValue, mouseCoord, gridSize,
                   gridDimensions>>

\* the wheel handler: up (deltaY < 0) or down
Wheel(up) ==
    /\ gridSize.d <= MaxGridDenominator
    /\ \E g \in {IF up THEN MathMin(NumAdd(gridSize, NumDiv(gridSize, Num(10, 1))), Num(100, 1))
                   ELSE MathMax(NumSub(gridSize, NumDiv(gridSize, Num(10, 1))), One)} :
           /\ gridSize' = g
           /\ \E n \in {MathCall("floor", NumDiv(Num(canvasWidth, 1), g)).n + 2} :
                  gridDimensions' = IF n % 2 # 0 THEN n + 1 ELSE n
           /\ Render(g)
    /\ UNCHANGED <<CoreVars, LoopVars, canvasWidth, canvasHeight, inputValue, currentExpression,
                   errorMessage, analysed, mouseCoord>>

\* the mousemove handler, the mouse at (mouseX, mouseY) on the canvas
MouseMove(mouseX, mouseY) ==
    /\ mouseCoord' =
           [on |-> TRUE,
            x |-> toFixed2(NumDiv(Num(2 * mouseX - canvasWidth, 2), gridSize)),
            y |-> toFixed2(NumDiv(Num(canvasHeight - 2 * mouseY, 2), gridSize)),
            px |-> mouseX, py |-> mouseY]
    /\ Render(gridSize)
    /\ UNCHANGED <<CoreVars, LoopVars, canvasWidth, canvasHeight, inputValue, currentExpression,
                   errorMessage, analysed, gridSize, gridDimensions>>

\* the mouseleave handler
MouseLeave ==
    /\ mouseCoord' = NoMouse
    /\ Render(gridSize)
    /\ UNCHANGED <<CoreVars, LoopVars, canvasWidth, canvasHeight, inputValue, currentExpression,
                   errorMessage, analysed, gridSize, gridDimensions>>

Next ==
    \/ \E s \in UiInputs : InputEvent(s)
    \/ PlotClick
    \/ \E up \in BOOLEAN : Wheel(up)
    \/ \E m \in MousePositions : MouseMove(m[1], m[2])
    \/ MouseLeave

Spec == Init /\ [][Next]_vars

\* what the text of the input compiles to: NoFunc when it is empty or parse
\* fails on it
Submitted(value, w) ==
    IF Trim(value) = "" THEN NoFunc ELSE parse(Trim(value), w).func

\* C5: whenever render or the analyser has read currentFunction, it is the
\* function compiled from the text last submitted, or null when that text
\* is empty or does not compile; so currentFunction is non-null exactly when
\* the last text is non-empty and compiles, and a function of an earlier
\* text is never drawn or analysed afterwards.
C5_CurrentIsLastSubmitted ==
    pc = "page" =>
        \A f \in {Submitted(inputValue, canvasWidth)} :
            /\ currentFunction = f
            /\ rendered = f
            /\ analysed.shown => (f.compiled /\ analysed.fn = f)
            /\ f.compiled => (analysed.shown /\ f.body = Rewrite(Trim(inputValue)).final)

----------------------------------------------------------------------------
(* Properties of evaluate *)

\* C1, as stated: the result of evaluate on a compiled function is a finite
\* number or NaN, never +Infinity or -Infinity.
C1_FiniteOrNaN == pc = "evaluated" => (isFinite(evalY) \/ isNaN(evalY))

\* C1, amended: evaluate on a compiled function never raises and returns a
\* number, which is finite, NaN, +Infinity or -Infinity; a division by zero is
\* returned as an infinity: 1/x gives +Infinity at 0 and -Infinity at -0.
C1_ReturnsNumber ==
    pc = "evaluated" =>
        /\ IsNumberType(evalY)
        /\ (raw = "1/x" /\ evalX = Zero) => evalY = PInf
        /\ (raw = "1/x" /\ evalX = NegZero) => evalY = NInf

C1_DivisionByZeroEvaluated ==
    pc = "evaluated" /\ func.compiled /\ raw = "1/x" /\ evalX = Zero /\ evalY = PInf

----------------------------------------------------------------------------
(* Properties of parse *)

\* the number of characters c among the first n characters of s
RECURSIVE CountChar(_, _, _)
CountChar(s, c, n) ==
    IF n = 0 THEN 0
    ELSE CountChar(s, c, n - 1) + (IF CharAt(s, n) = c THEN 1 ELSE 0)

\* '(' minus ')' in the first n characters of s
DepthAt(s, n) == CountChar(s, "(", n) - CountChar(s, ")", n)

\* the counter is negative after some prefix of s, or not zero at its end
Unbalanced(s) == (\E n \in 1..Len(s) : DepthAt(s, n) < 0) \/ DepthAt(s, Len(s)) # 0

ParensError == InvalidPrefix \o ParensMessage

\* C2: parse fails with the mismatched-parentheses error exactly when the
\* counter over the rewritten text goes negative at a prefix or ends non-zero;
\* so every text that reaches the Function constructor is balanced, and
\* "(x+1" and "x+1)" are rejected.
C2_ParensRejectedIff ==
    pc # "start" =>
        /\ (thrown = ParensError) <=> Unbalanced(trace.final)
        /\ (thrown \notin {ParensError, InvalidPrefix \o EmptyMessage}) =>
               ~Unbalanced(trace.final)
        /\ raw \in {"(x+1", "x+1)"} => thrown = ParensError

\* a text whose counter ends at zero but goes negative on the way
C2_NegativePrefixRejected ==
    pc = "parsed" /\ raw = ")(" /\ trace.final = ")(" /\ thrown = ParensError

\* some probe of testValues gives a finite number
SomeProbeFinite(body, w) ==
    \E k \in 1..Len(testValues) : IsValidResult(CallFunc(Compiled(body), testValues[k], w))

ProbeError == InvalidPrefix \o ProbeMessage

ExpectedCause(text, tr, w) ==
    IF Trim(text) = "" THEN EmptyMessage
    ELSE IF Unbalanced(tr.final) THEN ParensMessage
    ELSE IF FunctionSyntaxError(tr.final) THEN SyntaxMessage
    ELSE IF ~SomeProbeFinite(tr.final, w) THEN ProbeMessage
    ELSE ""

\* C4: every failed parse throws "Invalid expression: " followed by its cause
\* and nothing else, with the prefix once, and returns no function; a parse
\* that does not fail throws nothing.
C4_OnePrefixAndCause ==
    pc # "start" =>
        \A cause \in {ExpectedCause(raw, trace, canvasWidth)} :
            /\ cause = "" => (thrown = "" /\ func.compiled)
            /\ cause # "" =>
                   /\ func = NoFunc
                   /\ thrown = InvalidPrefix \o cause
                   /\ ~Contains(cause, "Invalid expression")

C4_SyntaxErrorPrefixed ==
    pc = "parsed" /\ raw = "x+" /\ func = NoFunc /\ thrown = InvalidPrefix \o SyntaxMessage

\* C6: the result of evaluate depends only on x: nothing outside the function,
\* such as the width of the canvas, changes it.
C6_DependsOnlyOnX ==
    pc = "evaluated" => \A w \in CanvasWidths : evaluate(func, evalX, w) = evalY

----------------------------------------------------------------------------
(* Properties of the rewriting *)

\* what the rewriting puts for the head of each recognized function
MathHeads ==
    {"Math.sin", "Math.cos", "Math.tan", "Math.log10", "Math.log", "Math.sqrt",
     "Math.abs", "Math.floor", "Math.ceil", "Math.round", "Math.exp"}

\* C7: no '*' is put between the head of a recognized function and the '('
\* of its argument, and name(x) is left a call by the implicit-multiplication
\* steps for each of the fourteen functions.
C7_HeadsStayCalls ==
    pc # "start" =>
        /\ \A h \in MathHeads : ~Contains(trace.final, h \o "*(")
        /\ raw \in FunctionCalls => trace.final = trace.functions

\* a name the rewriting knows starts at position i of s: the variable, a
\* constant, or a function with its '('
StartsName(s, i) ==
    \/ CharAt(s, i) = "x"
    \/ \E k \in 1..Len(ConstantEntries) : HasAt(s, i, ConstantEntries[k][1])
    \/ \E k \in 1..Len(FunctionNames) : HasAt(s, i, FunctionNames[k] \o "(")

\* a multiplication is implied between the characters i and i + 1 of s
ImpliedAt(s, i) ==
    LET a == CharAt(s, i)
        b == CharAt(s, i + 1)
    IN  \/ (IsDigit(a) \/ a = ")") /\ StartsName(s, i + 1)
        \/ IsDigit(a) /\ b = "("
        \/ a = ")" /\ IsDigit(b)

\* s from its character i on, with '*' written at every implied multiplication
RECURSIVE WithStars(_, _)
WithStars(s, i) ==
    IF i > Len(s) THEN ""
    ELSE CharAt(s, i) \o (IF i < Len(s) /\ ImpliedAt(s, i) THEN "*" ELSE "")
             \o WithStars(s, i + 1)

\* C8: a text with an implied multiplication compiles exactly when the text
\* with '*' written there compiles, and the two functions agree at every
\* sample point.
C8_ImplicitEqualsExplicit ==
    (pc \in {"parsed", "evaluated"} /\ WithStars(raw, 1) # raw) =>
        \A e \in {parse(WithStars(raw, 1), canvasWidth)} :
            /\ func.compiled <=> e.func.compiled
            /\ pc = "evaluated" => evaluate(e.func, evalX, canvasWidth) = evalY

\* the index of the ')' that closes the '(' before position i of s, at depth d
\* inside it; 0 when there is none
RECURSIVE MatchingClose(_, _, _)
MatchingClose(s, i, d) ==
    IF i > Len(s) THEN 0
    ELSE IF CharAt(s, i) = "(" THEN MatchingClose(s, i + 1, d + 1)
    ELSE IF CharAt(s, i) = ")" THEN (IF d = 0 THEN i ELSE MatchingClose(s, i + 1, d - 1))
    ELSE MatchingClose(s, i + 1, d)

\* s is made of the variable, digits, parentheses and operators only, so that
\* no other rewriting step touches it
PlainText(s) ==
    \A i \in 1..Len(s) : CharAt(s, i) \in {"x", "(", ")", "+", "-", "*", "/"} \/ IsDigit(CharAt(s, i))

Reciprocals == << <<"csc", "sin">>, <<"sec", "cos">>, <<"cot", "tan">> >>

\* s is name(A)rest for the k-th reciprocal function, with A not empty and
\* ending at the ')' that matches, and A and rest plain
ReciprocalCall(s, k) ==
    /\ HasAt(s, 1, Reciprocals[k][1] \o "(")
    /\ MatchingClose(s, 5, 0) > 5
    /\ PlainText(SubSeq(s, 5, Len(s)))

\* C9: csc(A)rest, sec(A)rest and cot(A)rest become (1/Math.sin(A))rest,
\* (1/Math.cos(A))rest and (1/Math.tan(A))rest, with A the text up to the ')'
\* that matches the '(' of the call.
C9_WholeArgument ==
    pc # "start" =>
        \A k \in 1..Len(Reciprocals) :
            ReciprocalCall(raw, k) =>
                \A m \in {MatchingClose(raw, 5, 0)} :
                    trace.functions =
                        "(1/Math." \o Reciprocals[k][2] \o "(" \o SubSeq(raw, 5, m - 1) \o "))"
                            \o SubSeq(raw, m + 1, Len(raw))

----------------------------------------------------------------------------
(* Properties of checkSymmetry *)

\* the points 0.5, 1, 2, 3: one of each pair (x, -x) of testPoints
PositivePoints == {SymmetryPoints[k] : k \in 5..8}

\* f at x and at -x for x in PositivePoints, where both are finite
FinitePairs(f, w) ==
    {p \in {[x |-> x, fx |-> evaluate(f, x, w), fNegX |-> evaluate(f, NumNeg(x), w)] :
                x \in PositivePoints} :
        isFinite(p.fx) /\ isFinite(p.fNegX)}

\* at least 80% of the pairs P are in Q
EightyPercent(Q, P) == P # {} /\ 5 * Cardinality(Q) >= 4 * Cardinality(P)

\* C10: isEven holds exactly when some pair has both values finite and the
\* pairs with |f(-x) - f(x)| < 1e-10 are at least 80% of those with both
\* values finite; isOdd likewise with |f(-x) + f(x)| < 1e-10; x^2 is even,
\* x^3 is odd and x+1 is neither.
C10_EightyPercentRule ==
    pc = "analysed" =>
        /\ \A P \in {FinitePairs(func, canvasWidth)} :
               /\ symmetry.isEven <=>
                      EightyPercent({p \in P : AbsBelowPow10(NumSub(p.fNegX, p.fx),
                                                            ToleranceDigits)}, P)
               /\ symmetry.isOdd <=>
                      EightyPercent({p \in P : AbsBelowPow10(NumAdd(p.fNegX, p.fx),
                                                            ToleranceDigits)}, P)
        /\ raw = "x^2" => (symmetry.isEven /\ ~symmetry.isOdd)
        /\ raw = "x^3" => (symmetry.isOdd /\ ~symmetry.isEven)
        /\ raw = "x+1" => (~symmetry.isEven /\ ~symmetry.isOdd)

\* a function even on the three pairs where it is finite, with one pair left out
C10_EvenOnFinitePairs ==
    pc = "analysed" /\ raw = "x^2+0/(x-1)" /\ symmetry.isEven /\ ~symmetry.isOdd

----------------------------------------------------------------------------
(* The analysers that sweep the function: isOneToOne, analyzeDomain,        *)
(* analyzeRange.  The sweeps compare values, so they run on the inputs      *)
(* whose values the model has exactly.  A loop `x += step` whose step is    *)
(* not a binary fraction accumulates rounding error; the model has it as an *)
(* error of drift/DriftScale of a step made by the first addition, drift    *)
(* being chosen when the run starts.                                        *)

\* an/ad < bn/bd for positive ad and bd, by the integer parts and then the
\* remainders, so that no product is formed
RECURSIVE RatLess(_, _, _, _)
RatLess(an, ad, bn, bd) ==
    IF an \div ad # bn \div bd THEN an \div ad < bn \div bd
    ELSE IF bn % bd = 0 THEN FALSE
    ELSE IF an % ad = 0 THEN TRUE
    ELSE RatLess(bd, bn % bd, ad, an % ad)

\* a < b for two numbers whose values the model has
JsLess(a, b) ==
    IF a.k = "nan" \/ b.k = "nan" THEN FALSE
    ELSE IF a.k = "pinf" \/ b.k = "ninf" THEN FALSE
    ELSE IF a.k = "ninf" \/ b.k = "pinf" THEN TRUE
    ELSE RatLess(a.n, a.d, b.n, b.d)

\* Math.abs
MathAbs(v) == IF JsLess(v, Zero) \/ v.k = "nz" THEN NumNeg(v) ELSE v

\* the model has the value of v: it is NaN, infinite or an exact rational
IsExact(v) == v.k \in {"num", "nz", "nan", "pinf", "ninf"}

\* for (let i = -5; i <= 5; i += 0.5) testPoints.push(i): the additions are exact
OneToOnePoints == [k \in 1..21 |-> Num(k - 11, 2)]

\* const tolerance = 1e-8
OneToOneDigits == 8

\* a variant of the inner loop that compares y with the last value only
NearLast(yValues, y) ==
    /\ Len(yValues) > 0
    /\ AbsBelowPow10(NumSub(y, yValues[Len(yValues)]), OneToOneDigits)

\* the inner loop: Math.abs(y - prevY) < tolerance for some prevY of yValues
NearAny(yValues, y) ==
    \E i \in 1..Len(yValues) : AbsBelowPow10(NumSub(y, yValues[i]), OneToOneDigits)

\* the loop over testPoints[k..] with the values collected so far, y being
\* the value at testPoints[k]
RECURSIVE OneToOneLoop(_, _, _, _)
RECURSIVE OneToOneBody(_, _, _, _, _)
OneToOneBody(f, w, k, yValues, y) ==
    IF isNaN(y) \/ ~isFinite(y) THEN OneToOneLoop(f, w, k + 1, yValues)
    ELSE IF NearAny(yValues, y) THEN FALSE
    ELSE OneToOneLoop(f, w, k + 1, Append(yValues, y))

OneToOneLoop(f, w, k, yValues) ==
    IF k > Len(OneToOnePoints) THEN Len(yValues) > 5
    ELSE OneToOneBody(f, w, k, yValues, evaluate(f, OneToOnePoints[k], w))

\* FunctionAnalyzer.isOneToOne(func)
isOneToOne(f, w) == OneToOneLoop(f, w, 1, <<>>)

\* the values of f at the points of isOneToOne
OneToOneValues(f, w) == [k \in 1..Len(OneToOnePoints) |-> evaluate(f, OneToOnePoints[k], w)]

\* the rounding errors of a run, in units of 1/DriftScale of a step
Drifts == {-1, 0, 1}

DriftScale == 10

\* the texts each analyser is applied to
OneToOneTexts ==
    {"x", "x^2", "x^3", "1/x", "abs(x)", "floor(x)", "x/x", "2*x+3", "x+0/floor(1/(x*x))"}

DomainTexts ==
    {"x", "x^2", "1/x", "x/x", "abs(x)", "x+0/floor(1/(x*x))",
     "sqrt(x)", "sqrt(x+1)", "sqrt(4)+x", "ln(x)", "ln(x+1)", "ln(x)/x", "sqrt(x)+1/x",
     "tan(x)", "cot(x)", "sec(x)", "csc(x)", "tan(x)/x", "1/x+sec(x)",
     "1/(x-1)", "1/(x*x-4)", "x/(x-9)", "1/floor(2*x)", "1/floor(x)"}

RangeTexts ==
    {"x", "x^2", "1/x", "x/x", "abs(x)",
     "3*abs(x)", "3*abs(x)+5", "0-3*abs(x)", "9-3*abs(x)", "0-x", "x/20", "0-1/x", "1/floor(x)-1/floor(x-1)",
     "x+0/floor(1/(9*x*x))", "abs(x-0.05)/(x-0.05)", "0-abs(x)",
     "3*abs(x)+0/(x-100)", "3*abs(x)-50+0/(x-100)", "0/(x-100)-3*abs(x)"}

AnalysisTexts == OneToOneTexts \cup DomainTexts \cup RangeTexts

\* x += step, k additions having been made before: the first one rounds
NextX(x, step, k, d) ==
    IF k = 0 THEN NumAdd(NumAdd(x, step), NumMul(Num(d, DriftScale), step))
    ELSE NumAdd(x, step)

\* the texts analyzeDomain returns, with >=, != and pi for the signs of the source
DomainSqrtBare == "x >= 0"

DomainSqrtCompound == "Expression under sqrt must be >= 0"

DomainLogBare == "x > 0"

DomainLogCompound == "Expression inside log must be > 0"

DomainSlash == "x != 0"

DomainTan == "x != pi/2 + n pi, where n is any integer"

DomainCsc == "x != n pi, where n is any integer"

DomainMultiple == "Multiple restrictions (see graph for asymptotes)"

DomainAll == "All real numbers (R)"

DomainListPrefix == "x != "

\* expr.match(/name\([^)]*x[^)]*\)/): after some `name(` an x comes before
\* the first `)`
MatchesCompound(expr, name) ==
    \E i \in 1..Len(expr) :
        /\ HasAt(expr, i, name \o "(")
        /\ \E c \in {FirstClose(expr, i + Len(name) + 1)} :
               c # 0 /\ Contains(SubSeq(expr, i + Len(name) + 1, c - 1), "x")

\* a variant of the checks before the sweep that looks for the denominator
\* before the logarithm
DomainPatternSlashFirst(expr) ==
    IF Contains(expr, "sqrt(") /\ Contains(expr, "sqrt(x)") THEN DomainSqrtBare
    ELSE IF Contains(expr, "sqrt(") /\ MatchesCompound(expr, "sqrt") THEN DomainSqrtCompound
    ELSE IF Contains(expr, "/x") \/ Contains(expr, "1/x") THEN DomainSlash
    ELSE IF (Contains(expr, "log(") \/ Contains(expr, "ln("))
            /\ (Contains(expr, "log(x)") \/ Contains(expr, "ln(x)"))
    THEN DomainLogBare
    ELSE IF (Contains(expr, "log(") \/ Contains(expr, "ln("))
            /\ (MatchesCompound(expr, "log") \/ MatchesCompound(expr, "ln"))
    THEN DomainLogCompound
    ELSE IF Contains(expr, "tan(x)") \/ Contains(expr, "cot(x)") THEN DomainTan
    ELSE IF Contains(expr, "sec(x)") THEN DomainTan
    ELSE IF Contains(expr, "csc(x)") THEN DomainCsc
    ELSE ""

\* the checks of analyzeDomain before the sweep: the text they return, or ""
\* when control reaches the sweep
DomainPattern(expr) ==
    IF Contains(expr, "sqrt(") /\ Contains(expr, "sqrt(x)") THEN DomainSqrtBare
    ELSE IF Contains(expr, "sqrt(") /\ MatchesCompound(expr, "sqrt") THEN DomainSqrtCompound
    ELSE IF (Contains(expr, "log(") \/ Contains(expr, "ln("))
            /\ (Contains(expr, "log(x)") \/ Contains(expr, "ln(x)"))
    THEN DomainLogBare
    ELSE IF (Contains(expr, "log(") \/ Contains(expr, "ln("))
            /\ (MatchesCompound(expr, "log") \/ MatchesCompound(expr, "ln"))
    THEN DomainLogCompound
    ELSE IF Contains(expr, "/x") \/ Contains(expr, "1/x") THEN DomainSlash
    ELSE IF Contains(expr, "tan(x)") \/ Contains(expr, "cot(x)") THEN DomainTan
    ELSE IF Contains(expr, "sec(x)") THEN DomainTan
    ELSE IF Contains(expr, "csc(x)") THEN DomainCsc
    ELSE ""

\* String(v) for a multiple v of 0.1
TenthsText(v) ==
    IF IsZero(v) THEN "0"
    ELSE (IF v.n < 0 THEN "-" ELSE "")
             \o ToString(((Abs(v.n) * 10) \div v.d) \div 10)
             \o (IF ((Abs(v.n) * 10) \div v.d) % 10 = 0 THEN ""
                 ELSE "." \o ToString(((Abs(v.n) * 10) \div v.d) % 10))

\* restrictions.join(", ")
RECURSIVE JoinTenths(_)
JoinTenths(list) ==
    IF list = <<>> THEN ""
    ELSE IF Len(list) = 1 THEN TenthsText(list[1])
    ELSE TenthsText(list[1]) \o ", " \o JoinTenths(Tail(list))

\* the body of the sweep for a value y at x that is not finite: restrictions
\* after it
PushRestriction(restrictions, rounded) ==
    IF \E i \in 1..Len(restrictions) :
           JsLess(MathAbs(NumSub(restrictions[i], rounded)), Num(5, 100))
    THEN restrictions
    ELSE Append(restrictions, rounded)

\* the statements after the sweep
DomainAnswer(restrictions) ==
    IF Len(restrictions) > 0
    THEN (IF Len(restrictions) <= 5 THEN DomainListPrefix \o JoinTenths(restrictions)
          ELSE DomainMultiple)
    ELSE DomainAll

\* analyzer.analyzeDomain(func, expression) up to its sweep: it returns, or
\* the sweep starts at testRange[0] = -20
AnalyzeDomain ==
    /\ pc = "parsed"
    /\ raw \in DomainTexts
    /\ func.compiled
    /\ \E text \in {DomainPattern(toLowerCase(raw))} :
           IF text # ""
           THEN /\ answer' = [NoAnswer EXCEPT !.op = "analyzeDomain", !.text = text]
                /\ pc' = "answered"
                /\ UNCHANGED <<loop, locals>>
           ELSE /\ loop' = [NoLoop EXCEPT !.op = "analyzeDomain", !.x = Num(-20, 1),
                                          !.xMax = Num(20, 1), !.step = Num(1, 10)]
                /\ locals' = NoLocals
                /\ pc' = "sweep"
                /\ UNCHANGED answer
    /\ UNCHANGED <<raw, canvasWidth, trace, func, thrown, evalX, evalY, symmetry, UiVars, drift>>

\* one turn of the sweep of analyzeDomain
DomainStep ==
    /\ pc = "sweep" /\ loop.op = "analyzeDomain"
    /\ ~JsLess(loop.xMax, loop.x)
    /\ \E y \in {evaluate(func, loop.x, canvasWidth)} :
           /\ IsExact(y)
           /\ locals' =
                  IF ~isFinite(y)
                  THEN [locals EXCEPT !.restrictions =
                            PushRestriction(locals.restrictions,
                                NumDiv(MathCall("round", NumMul(loop.x, Num(10, 1))),
                                       Num(10, 1)))]
                  ELSE locals
    /\ loop' = [loop EXCEPT !.x = NextX(loop.x, loop.step, loop.k, drift), !.k = loop.k + 1]
    /\ UNCHANGED <<pc, raw, canvasWidth, trace, func, thrown, evalX, evalY, symmetry, UiVars,
                   drift, answer>>

\* the sweep of analyzeDomain is over
DomainReturn ==
    /\ pc = "sweep" /\ loop.op = "analyzeDomain"
    /\ JsLess(loop.xMax, loop.x)
    /\ answer' = [NoAnswer EXCEPT !.op = "analyzeDomain",
                                  !.text = DomainAnswer(locals.restrictions),
                                  !.list = locals.restrictions]
    /\ pc' = "answered"
    /\ UNCHANGED <<raw, canvasWidth, trace, func, thrown, evalX, evalY, symmetry, UiVars,
                   drift, loop, locals>>

\* a <= b for two numbers whose values the model has
JsLessEq(a, b) == a.k # "nan" /\ b.k # "nan" /\ ~JsLess(b, a)

\* the texts analyzeRange returns, with ASCII for the signs of the source
RangeAll == "All real numbers (R)"

RangePlus == "y -> +Infinity"

RangeMinus == "y -> -Infinity"

RangeCannot == "Cannot determine range"

RangeAtLeastZero == "y >= 0"

RangeAtMostZero == "y <= 0"

RangeTrig == "-1 <= y <= 1"

RangeAtLeast(v) == "y >= " \o toFixed2(v)

RangeAtMost(v) == "y <= " \o toFixed2(v)

RangeConstant(v) == "y ~ " \o toFixed2(v) \o " (approximately constant)"

RangeBetween(lo, hi) == lo \o " <= y <= " \o hi

\* const testPoints = [-100, -10, 0, 10, 100]
RangeTestPoints == <<Num(-100, 1), Num(-10, 1), Zero, Num(10, 1), Num(100, 1)>>

\* v >= -0.1 && v <= 0.1
NearZero(v) == JsLessEq(Num(-1, 10), v) /\ JsLessEq(v, Num(1, 10))

\* the block `if (testValues.every((y) => isFinite(y)))`: the text it returns,
\* or "" when control leaves it
RangeByTestValues(s, tv) ==
    IF \E i \in 1..Len(tv) : ~isFinite(tv[i]) THEN ""
    ELSE IF /\ JsLess(Num(100, 1), tv[1]) /\ JsLess(Num(100, 1), tv[5])
            /\ JsLessEq(tv[3], MathMin(tv[1], tv[5]))
    THEN (IF NearZero(s.minY) THEN RangeAtLeastZero ELSE RangeAtLeast(s.minY))
    ELSE IF /\ JsLess(tv[1], Num(-100, 1)) /\ JsLess(tv[5], Num(-100, 1))
            /\ JsLessEq(MathMax(tv[1], tv[5]), tv[3])
    THEN (IF NearZero(s.maxY) THEN RangeAtMostZero ELSE RangeAtMost(s.maxY))
    ELSE IF /\ JsLess(tv[1], tv[2]) /\ JsLess(tv[2], tv[3])
            /\ JsLess(tv[3], tv[4]) /\ JsLess(tv[4], tv[5])
            /\ JsLess(Num(1, 10), MathAbs(NumDiv(NumSub(tv[5], tv[1]), Num(200, 1))))
    THEN RangeAll
    ELSE IF /\ JsLess(tv[2], tv[1]) /\ JsLess(tv[3], tv[2])
            /\ JsLess(tv[4], tv[3]) /\ JsLess(tv[5], tv[4])
            /\ JsLess(Num(1, 10), MathAbs(NumDiv(NumSub(tv[5], tv[1]), Num(200, 1))))
    THEN RangeAll
    ELSE ""

\* a variant of the statements after that block that tests the span before
\* the bounds near zero
RangeSpanFirst(s, early) ==
    IF early # "" THEN early
    ELSE IF JsLess(MathAbs(NumSub(s.maxY, s.minY)), Num(1, 100))
    THEN RangeConstant(NumDiv(NumAdd(s.minY, s.maxY), Num(2, 1)))
    ELSE IF /\ JsLessEq(Num(-11, 10), s.minY) /\ JsLessEq(s.maxY, Num(11, 10))
            /\ JsLessEq(s.minY, Num(-9, 10)) /\ JsLessEq(Num(9, 10), s.maxY)
    THEN RangeTrig
    ELSE IF JsLess(Num(100, 1), MathAbs(NumSub(s.maxY, s.minY))) THEN RangeAll
    ELSE IF NearZero(s.minY)
    THEN (IF JsLess(Num(100, 1), s.maxY) THEN RangeAtLeastZero
          ELSE RangeBetween("0", toFixed2(s.maxY)))
    ELSE IF NearZero(s.maxY)
    THEN (IF JsLess(s.minY, Num(-100, 1)) THEN RangeAtMostZero
          ELSE RangeBetween(toFixed2(s.minY), "0"))
    ELSE RangeBetween(toFixed2(s.minY), toFixed2(s.maxY))

\* the statements after that block, which returned early or left ""
RangeAfterTestValues(s, early) ==
    IF early # "" THEN early
    ELSE IF JsLess(MathAbs(NumSub(s.maxY, s.minY)), Num(1, 100))
    THEN RangeConstant(NumDiv(NumAdd(s.minY, s.maxY), Num(2, 1)))
    ELSE IF /\ JsLessEq(Num(-11, 10), s.minY) /\ JsLessEq(s.maxY, Num(11, 10))
            /\ JsLessEq(s.minY, Num(-9, 10)) /\ JsLessEq(Num(9, 10), s.maxY)
    THEN RangeTrig
    ELSE IF NearZero(s.minY)
    THEN (IF JsLess(Num(100, 1), s.maxY) THEN RangeAtLeastZero
          ELSE RangeBetween("0", toFixed2(s.maxY)))
    ELSE IF NearZero(s.maxY)
    THEN (IF JsLess(s.minY, Num(-100, 1)) THEN RangeAtMostZero
          ELSE RangeBetween(toFixed2(s.minY), "0"))
    ELSE IF JsLess(Num(100, 1), MathAbs(NumSub(s.maxY, s.minY))) THEN RangeAll
    ELSE RangeBetween(toFixed2(s.minY), toFixed2(s.maxY))

\* the statements of analyzeRange between the sweep and testPoints: the text
\* they return, or "" when control goes on
RangeBeforeTestValues(s) ==
    IF s.hasInfiniteValues /\ s.hasPositiveInfinite /\ s.hasNegativeInfinite THEN RangeAll
    ELSE IF s.hasInfiniteValues /\ s.hasPositiveInfinite THEN RangePlus
    ELSE IF s.hasInfiniteValues /\ s.hasNegativeInfinite THEN RangeMinus
    ELSE IF ~isFinite(s.minY) \/ ~isFinite(s.maxY) \/ s.validPoints < 10 THEN RangeCannot
    ELSE ""

\* testPoints.map((x) => this.parser.evaluate(func, x))
RangeTestValues(f, w) ==
    [i \in 1..Len(RangeTestPoints) |-> evaluate(f, RangeTestPoints[i], w)]

\* the body of the sweep of analyzeRange for the value y
RangeBody(s, y) ==
    IF ~isFinite(y)
    THEN [s EXCEPT !.hasInfiniteValues = TRUE,
                   !.hasPositiveInfinite = s.hasPositiveInfinite \/ y.k = "pinf",
                   !.hasNegativeInfinite = s.hasNegativeInfinite \/ y.k = "ninf"]
    ELSE [s EXCEPT !.validPoints = s.validPoints + 1,
                   !.minY = IF JsLess(y, s.minY) THEN y ELSE s.minY,
                   !.maxY = IF JsLess(s.maxY, y) THEN y ELSE s.maxY]

\* analyzer.analyzeRange(func) up to its sweep, which starts at testRange[0] = -50
AnalyzeRange ==
    /\ pc = "parsed"
    /\ raw \in RangeTexts
    /\ func.compiled
    /\ loop' = [NoLoop EXCEPT !.op = "analyzeRange", !.x = Num(-50, 1),
                              !.xMax = Num(50, 1), !.step = Num(1, 10)]
    /\ locals' = NoLocals
    /\ pc' = "sweep"
    /\ UNCHANGED <<raw, canvasWidth, trace, func, thrown, evalX, evalY, symmetry, UiVars,
                   drift, answer>>

\* one turn of the sweep of analyzeRange
RangeStep ==
    /\ pc = "sweep" /\ loop.op = "analyzeRange"
    /\ ~JsLess(loop.xMax, loop.x)
    /\ \E y \in {evaluate(func, loop.x, canvasWidth)} :
           /\ IsExact(y)
           /\ locals' = RangeBody(locals, y)
    /\ loop' = [loop EXCEPT !.x = NextX(loop.x, loop.step, loop.k, drift), !.k = loop.k + 1]
    /\ UNCHANGED <<pc, raw, canvasWidth, trace, func, thrown, evalX, evalY, symmetry, UiVars,
                   drift, answer>>

\* the sweep of analyzeRange is over: the statements after it
RangeReturn ==
    /\ pc = "sweep" /\ loop.op = "analyzeRange"
    /\ JsLess(loop.xMax, loop.x)
    /\ \E early \in {RangeBeforeTestValues(locals)} :
           IF early # ""
           THEN /\ answer' = [NoAnswer EXCEPT !.op = "analyzeRange", !.text = early]
                /\ UNCHANGED locals
           ELSE \E tv \in {RangeTestValues(func, canvasWidth)} :
                    /\ \A i \in 1..Len(tv) : IsExact(tv[i])
                    /\ locals' = [locals EXCEPT !.testValues = tv]
                    /\ answer' = [NoAnswer EXCEPT
                                     !.op = "analyzeRange",
                                     !.text = RangeAfterTestValues(locals,
                                                  RangeByTestValues(locals, tv))]
    /\ pc' = "answered"
    /\ UNCHANGED <<raw, canvasWidth, trace, func, thrown, evalX, evalY, symmetry, UiVars,
                   drift, loop>>

\* the inputs of the analysers
AnalysisInputs == {s \in AnalysisTexts : ModelCovers(s)}

AnalysisWidths == {400}

InitAnalysis ==
    /\ pc = "start"
    /\ raw \in AnalysisInputs
    /\ canvasWidth \in AnalysisWidths
    /\ canvasHeight \in CanvasHeights
    /\ trace = NoTrace
    /\ func = NoFunc
    /\ thrown = ""
    /\ evalX = Zero
    /\ evalY = Zero
    /\ symmetry = NoSymmetry
    /\ UiIdle
    /\ drift \in Drifts
    /\ loop = NoLoop
    /\ locals = NoLocals
    /\ answer = NoAnswer

\* analyzer.isOneToOne(func)
IsOneToOne ==
    /\ pc = "parsed"
    /\ raw \in OneToOneTexts
    /\ func.compiled
    /\ \A ys \in {OneToOneValues(func, canvasWidth)} : \A k \in DOMAIN ys : IsExact(ys[k])
    /\ answer' = [NoAnswer EXCEPT !.op = "isOneToOne", !.flag = isOneToOne(func, canvasWidth)]
    /\ pc' = "answered"
    /\ UNCHANGED <<raw, canvasWidth, trace, func, thrown, evalX, evalY, symmetry, UiVars,
                   drift, loop, locals>>

NextAnalysis ==
    \/ Parse
    \/ IsOneToOne
    \/ AnalyzeDomain
    \/ DomainStep
    \/ DomainReturn
    \/ AnalyzeRange
    \/ RangeStep
    \/ RangeReturn

SpecAnalysis == InitAnalysis /\ [][NextAnalysis]_vars

\* C11: isOneToOne returns true exactly when no finite value at the 21 points
\* -5, -4.5, ..., 5 is within 1e-8 of a finite value at an earlier point and
\* at least 6 of the values are finite; the values that are not finite take
\* no part in the comparisons.
C11_OneToOneIff ==
    (pc = "answered" /\ answer.op = "isOneToOne") =>
        \A ys \in {OneToOneValues(func, canvasWidth)} :
            \A fin \in {{k \in DOMAIN ys : isFinite(ys[k])}} :
                answer.flag <=>
                    /\ Cardinality(fin) >= 6
                    /\ \A i \in fin : \A j \in fin :
                           i < j => ~AbsBelowPow10(NumSub(ys[j], ys[i]), OneToOneDigits)

\* x^2 takes the value 25 at -5 and at 5 and is found not one-to-one
C11_SquareNotOneToOne ==
    /\ pc = "answered" /\ answer.op = "isOneToOne" /\ raw = "x^2" /\ ~answer.flag
    /\ evaluate(func, OneToOnePoints[1], canvasWidth) = evaluate(func, OneToOnePoints[21], canvasWidth)

\* the patterns of analyzeDomain in the order they are tried, each with what
\* it matches and the text it gives
DomainTiers(expr) ==
    << [hit |-> Contains(expr, "sqrt(x)") \/ MatchesCompound(expr, "sqrt"),
        text |-> IF Contains(expr, "sqrt(x)") THEN DomainSqrtBare ELSE DomainSqrtCompound],
       [hit |-> \/ Contains(expr, "log(x)") \/ Contains(expr, "ln(x)")
                \/ MatchesCompound(expr, "log") \/ MatchesCompound(expr, "ln"),
        text |-> IF Contains(expr, "log(x)") \/ Contains(expr, "ln(x)")
                 THEN DomainLogBare ELSE DomainLogCompound],
       [hit |-> Contains(expr, "/x"), text |-> DomainSlash],
       [hit |-> Contains(expr, "tan(x)") \/ Contains(expr, "cot(x)"), text |-> DomainTan],
       [hit |-> Contains(expr, "sec(x)"), text |-> DomainTan],
       [hit |-> Contains(expr, "csc(x)"), text |-> DomainCsc] >>

\* C12: analyzeDomain returns the text of the first pattern that matches, in
\* the order sqrt, log/ln, /x, tan/cot, sec, csc, and sweeps only when none
\* matches; the answer of the sweep is decided by the number n of positions
\* it collected: all real numbers for n = 0, the list of the n positions for
\* 1 <= n <= 5, the multiple-restrictions text for n > 5.
C12_PatternThenCount ==
    (pc = "answered" /\ answer.op = "analyzeDomain") =>
        \A tiers \in {DomainTiers(toLowerCase(raw))} :
            IF \E i \in 1..Len(tiers) : tiers[i].hit
            THEN /\ \E i \in 1..Len(tiers) :
                        /\ tiers[i].hit
                        /\ \A j \in 1..(i - 1) : ~tiers[j].hit
                        /\ answer.text = tiers[i].text
                 /\ loop = NoLoop
            ELSE /\ loop.op = "analyzeDomain" /\ loop.k > 0
                 /\ answer.list = locals.restrictions
                 /\ \A n \in {Len(answer.list)} :
                        /\ n = 0 => answer.text = DomainAll
                        /\ (1 <= n /\ n <= 5) =>
                               answer.text = DomainListPrefix \o JoinTenths(answer.list)
                        /\ n > 5 => answer.text = DomainMultiple

\* the sweep of 1/floor(2*x) collects the five positions where floor(2*x) is 0
\* and lists them
C12_FivePositionsListed ==
    /\ pc = "answered" /\ answer.op = "analyzeDomain" /\ raw = "1/floor(2*x)"
    /\ Len(answer.list) = 5
    /\ answer.text = "x != 0.1, 0.2, 0.3, 0.4, 0.5"

\* the probes lie on a curve that opens upwards: both ends above 100 and the
\* centre not above either
OpensUp(tv) ==
    /\ JsLess(Num(100, 1), tv[1]) /\ JsLess(Num(100, 1), tv[5])
    /\ JsLessEq(tv[3], tv[1]) /\ JsLessEq(tv[3], tv[5])

OpensDown(tv) ==
    /\ JsLess(tv[1], Num(-100, 1)) /\ JsLess(tv[5], Num(-100, 1))
    /\ JsLessEq(tv[1], tv[3]) /\ JsLessEq(tv[5], tv[3])

\* strictly monotonic over the five probes with a slope above 0.1: the ends
\* are more than 20 apart
SteepMonotonic(tv) ==
    /\ \/ \A i \in 1..4 : JsLess(tv[i], tv[i + 1])
       \/ \A i \in 1..4 : JsLess(tv[i + 1], tv[i])
    /\ JsLess(Num(20, 1), MathAbs(NumSub(tv[5], tv[1])))

\* the decision policy of the range analyser: rule i applies when hit, and
\* then gives text
RangeRules(s, tv) ==
    << [hit |-> s.hasPositiveInfinite /\ s.hasNegativeInfinite, text |-> RangeAll],
       [hit |-> s.hasPositiveInfinite \/ s.hasNegativeInfinite,
        text |-> IF s.hasPositiveInfinite THEN RangePlus ELSE RangeMinus],
       [hit |-> s.validPoints < 10 \/ ~isFinite(s.minY) \/ ~isFinite(s.maxY),
        text |-> RangeCannot],
       [hit |-> /\ Len(tv) = 5
                /\ \A i \in 1..5 : isFinite(tv[i])
                /\ (OpensUp(tv) \/ OpensDown(tv) \/ SteepMonotonic(tv)),
        text |-> IF Len(tv) # 5 THEN ""
                 ELSE IF OpensUp(tv)
                 THEN (IF NearZero(s.minY) THEN RangeAtLeastZero ELSE RangeAtLeast(s.minY))
                 ELSE IF OpensDown(tv)
                 THEN (IF NearZero(s.maxY) THEN RangeAtMostZero ELSE RangeAtMost(s.maxY))
                 ELSE RangeAll],
       [hit |-> JsLess(MathAbs(NumSub(s.maxY, s.minY)), Num(1, 100)),
        text |-> RangeConstant(NumDiv(NumAdd(s.minY, s.maxY), Num(2, 1)))],
       [hit |-> /\ JsLessEq(Num(-11, 10), s.minY) /\ JsLessEq(s.minY, Num(-9, 10))
                /\ JsLessEq(Num(9, 10), s.maxY) /\ JsLessEq(s.maxY, Num(11, 10)),
        text |-> RangeTrig],
       [hit |-> NearZero(s.minY) \/ NearZero(s.maxY),
        text |-> IF NearZero(s.minY)
                 THEN (IF JsLess(Num(100, 1), s.maxY) THEN RangeAtLeastZero
                       ELSE RangeBetween("0", toFixed2(s.maxY)))
                 ELSE (IF JsLess(s.minY, Num(-100, 1)) THEN RangeAtMostZero
                       ELSE RangeBetween(toFixed2(s.minY), "0"))],
       [hit |-> JsLess(Num(100, 1), NumSub(s.maxY, s.minY)), text |-> RangeAll],
       [hit |-> TRUE, text |-> RangeBetween(toFixed2(s.minY), toFixed2(s.maxY))] >>

\* the first rule that applies
FirstRule(rules) == CHOOSE i \in 1..Len(rules) : rules[i].hit /\ \A j \in 1..(i - 1) : ~rules[j].hit

\* C13: analyzeRange returns the answer of the first rule of the decision
\* policy, in the order 1 to 9, whose condition holds of what the sweep
\* recorded (minY, maxY, the number of finite values, whether +Infinity and
\* -Infinity were seen) and of the five probe values: an infinity that was
\* seen decides before every later rule, then too few finite values, and the
\* rules on the probes, the constant, the trigonometric bounds, the bound
\* near zero, the span and the explicit bounds apply only when no earlier
\* rule did.
C13_FirstRuleDecides ==
    (pc = "answered" /\ answer.op = "analyzeRange") =>
        \A rules \in {RangeRules(locals, locals.testValues)} :
            /\ answer.text = rules[FirstRule(rules)].text
            /\ (locals.hasPositiveInfinite \/ locals.hasNegativeInfinite)
                   => answer.text \in {RangeAll, RangePlus, RangeMinus}
            /\ (FirstRule(rules) > 3) <=> (locals.testValues # <<>>)

\* 3*abs(x) with a probe that is not finite: the sweep finds the minimum 0 and
\* a maximum above 100; the rule on the bound near zero answers before the
\* rule on the span, which holds as well
C13_NearZeroBeforeSpan ==
    /\ pc = "answered" /\ answer.op = "analyzeRange" /\ raw = "3*abs(x)+0/(x-100)"
    /\ locals.validPoints >= 10
    /\ \A rules \in {RangeRules(locals, locals.testValues)} :
           FirstRule(rules) = 7 /\ rules[8].hit
    /\ answer.text = RangeAtLeastZero

(* drawAsymptotes                                                           *)
(* The scan runs one turn of its loop per step. Each candidate is kept with *)
(* the number of the method that pushed it and with whether the condition   *)
(* of method 3 held of the values at its position; the code pushes the      *)
(* number x alone.                                                          *)

\* const step = xRange / 2000
ScanSteps == 2000

\* the texts of the input the scan is run for
ScanTexts == {"", "1/x", "1/(abs(x)-2)", "1/floor(abs(100*x)-2.5)"}

ScanInputs == {s \in ScanTexts : s = "" \/ ModelCovers(s)}

\* the widths of the canvas the scan is run for
ScanWidths == {0, 400}

\* gridSize as the script loads and after one turn of the wheel upwards
ScanGridSizes == {Num(InitialGridSize, 1), Num(22, 1)}

\* Math.max of two numbers
JsMax(a, b) ==
    IF a.k = "nan" \/ b.k = "nan" THEN NaN
    ELSE IF JsLess(a, b) THEN b ELSE a

\* Math.sign(a) !== Math.sign(b) for two finite numbers
SignsDiffer(a, b) ==
    LET sign(v) == IF IsZero(v) THEN 0 ELSE IF v.n < 0 THEN -1 ELSE 1
    IN  sign(a) # sign(b)

\* Method 1: !isFinite(y) with finite neighbours
Method1(y, yLeft, yRight) == ~isFinite(y) /\ isFinite(yLeft) /\ isFinite(yRight)

\* a variant of method 2 that asks for equal signs
Method2SameSign(y, yLeft, yRight, yThreshold) ==
    /\ isFinite(yLeft) /\ isFinite(yRight) /\ isFinite(y)
    /\ JsLess(yThreshold, MathAbs(yLeft)) /\ JsLess(yThreshold, MathAbs(yRight))
    /\ ~SignsDiffer(yLeft, yRight)

\* Method 2: the three values finite, both neighbours beyond the threshold,
\* their signs different
Method2(y, yLeft, yRight, yThreshold) ==
    /\ isFinite(yLeft) /\ isFinite(yRight) /\ isFinite(y)
    /\ JsLess(yThreshold, MathAbs(yLeft)) /\ JsLess(yThreshold, MathAbs(yRight))
    /\ SignsDiffer(yLeft, yRight)

\* Method 3: finite neighbours, maxSlope > yThreshold / step, and the
\* neighbours beyond the threshold on opposite sides
Method3(y, yLeft, yRight, yThreshold, step) ==
    /\ isFinite(yLeft) /\ isFinite(yRight)
    /\ JsLess(NumDiv(yThreshold, step),
              JsMax(NumDiv(MathAbs(NumSub(y, yLeft)), step),
                    NumDiv(MathAbs(NumSub(yRight, y)), step)))
    /\ \/ JsLess(yThreshold, yLeft) /\ JsLess(yRight, NumNeg(yThreshold))
       \/ JsLess(yLeft, NumNeg(yThreshold)) /\ JsLess(yThreshold, yRight)

Candidate(x, by, spike) == [x |-> x, by |-> by, spike |-> spike]

\* a variant of the body in which method 2 pushes and does not continue
ScanBodyFallingThrough(asymptotes, x, y, yLeft, yRight, yThreshold, step) ==
    LET spike == Method3(y, yLeft, yRight, yThreshold, step)
    IN  IF Method1(y, yLeft, yRight) THEN Append(asymptotes, Candidate(x, 1, spike))
        ELSE IF Method2(y, yLeft, yRight, yThreshold)
        THEN (IF spike
              THEN Append(Append(asymptotes, Candidate(x, 2, spike)), Candidate(x, 3, spike))
              ELSE Append(asymptotes, Candidate(x, 2, spike)))
        ELSE IF spike THEN Append(asymptotes, Candidate(x, 3, spike))
        ELSE asymptotes

\* the body of the scan's loop at x: asymptotes after it
ScanBody(asymptotes, x, y, yLeft, yRight, yThreshold, step) ==
    IF Method1(y, yLeft, yRight)
    THEN Append(asymptotes, Candidate(x, 1, Method3(y, yLeft, yRight, yThreshold, step)))
    ELSE IF Method2(y, yLeft, yRight, yThreshold)
    THEN Append(asymptotes, Candidate(x, 2, Method3(y, yLeft, yRight, yThreshold, step)))
    ELSE IF Method3(y, yLeft, yRight, yThreshold, step)
    THEN Append(asymptotes, Candidate(x, 3, TRUE))
    ELSE asymptotes

\* a variant of the comparison without Math.abs
TooCloseSigned(existing, asym, minDistance) == JsLess(NumSub(existing, asym), minDistance)

\* Math.abs(existing - asym) < minDistance
TooClose(existing, asym, minDistance) == JsLess(MathAbs(NumSub(existing, asym)), minDistance)

\* the second loop of drawAsymptotes over asymptotes[k..], cleaned being
\* cleanedAsymptotes so far
RECURSIVE CleanFrom(_, _, _, _)
CleanFrom(asymptotes, k, cleaned, minDistance) ==
    IF k > Len(asymptotes) THEN cleaned
    ELSE CleanFrom(asymptotes, k + 1,
                   IF \E j \in 1..Len(cleaned) : TooClose(cleaned[j], asymptotes[k].x, minDistance)
                   THEN cleaned
                   ELSE Append(cleaned, asymptotes[k].x),
                   minDistance)

\* the page with the text s in the input, the scan about to run
InitScan ==
    /\ pc = "page"
    /\ raw = ""
    /\ trace = NoTrace
    /\ func = NoFunc
    /\ thrown = ""
    /\ evalX = Zero
    /\ evalY = Zero
    /\ symmetry = NoSymmetry
    /\ canvasWidth \in ScanWidths
    /\ canvasHeight \in CanvasHeights
    /\ inputValue \in ScanInputs
    /\ \E p \in {updateFunction(inputValue, Loaded, canvasWidth)} :
           /\ currentFunction = p.currentFunction
           /\ currentExpression = p.currentExpression
           /\ errorMessage = p.errorMessage
           /\ analysed = p.analysed
           /\ rendered = p.rendered
    /\ mouseCoord = NoMouse
    /\ gridSize \in ScanGridSizes
    /\ gridDimensions = IF gridSize = Num(InitialGridSize, 1) THEN InitialGridDimensions
                        ELSE 2 * ((canvasWidth \div gridSize.n + 3) \div 2)
    /\ drift \in Drifts
    /\ loop = NoLoop
    /\ locals = NoLocals
    /\ answer = NoAnswer

ScanFixed == <<raw, trace, func, thrown, evalX, evalY, symmetry, UiVars, canvasWidth, drift>>

\* drawAsymptotes() up to its loop
DrawAsymptotes ==
    /\ pc = "page"
    /\ IF ~currentFunction.compiled
       THEN /\ pc' = "answered"
            /\ answer' = [NoAnswer EXCEPT !.op = "drawAsymptotes"]
            /\ UNCHANGED <<loop, locals>>
       ELSE \E xMin \in {NumDiv(NumNeg(Num(canvasWidth, 1)), NumMul(Num(2, 1), gridSize))},
               xMax \in {NumDiv(Num(canvasWidth, 1), NumMul(Num(2, 1), gridSize))} :
                /\ loop' = [op |-> "drawAsymptotes", x |-> xMin, xMax |-> xMax,
                            step |-> NumDiv(NumSub(xMax, xMin), Num(ScanSteps, 1)),
                            yThreshold |-> NumDiv(Num(canvasHeight, 1),
                                                  NumMul(Num(4, 1), gridSize)),
                            k |-> 0]
                /\ locals' = NoLocals
                /\ pc' = "sweep"
                /\ UNCHANGED answer
    /\ UNCHANGED ScanFixed

\* one turn of the scan's loop; k counts the turns, up to two beyond ScanSteps
ScanStep ==
    /\ pc = "sweep" /\ loop.op = "drawAsymptotes"
    /\ JsLessEq(loop.x, loop.xMax)
    /\ \E y \in {evaluate(currentFunction, loop.x, canvasWidth)},
          yLeft \in {evaluate(currentFunction, NumSub(loop.x, loop.step), canvasWidth)},
          yRight \in {evaluate(currentFunction, NumAdd(loop.x, loop.step), canvasWidth)} :
           /\ IsExact(y) /\ IsExact(yLeft) /\ IsExact(yRight)
           /\ locals' = [locals EXCEPT !.asymptotes =
                             ScanBody(locals.asymptotes, loop.x, y, yLeft, yRight,
                                      loop.yThreshold, loop.step)]
    /\ loop' = [loop EXCEPT !.x = NextX(loop.x, loop.step, loop.k, drift),
                            !.k = IF loop.k > ScanSteps + 1 THEN loop.k ELSE loop.k + 1]
    /\ UNCHANGED <<pc, answer>>
    /\ UNCHANGED ScanFixed

\* the scan's loop is over: the second loop, which cleans the list
ScanClean ==
    /\ pc = "sweep" /\ loop.op = "drawAsymptotes"
    /\ ~JsLessEq(loop.x, loop.xMax)
    /\ answer' = [NoAnswer EXCEPT !.op = "drawAsymptotes",
                                  !.list = CleanFrom(locals.asymptotes, 1, <<>>,
                                                     NumMul(loop.step, Num(10, 1)))]
    /\ pc' = "answered"
    /\ UNCHANGED <<loop, locals>>
    /\ UNCHANGED ScanFixed

NextScan ==
    \/ DrawAsymptotes
    \/ ScanStep
    \/ ScanClean

SpecScan == InitScan /\ [][NextScan]_vars

\* the candidates of the scan, in the order they were pushed
Flagged == [i \in 1..Len(locals.asymptotes) |-> locals.asymptotes[i].x]

\* the number x occurs in the list
Occurs(x, list) == \E i \in 1..Len(list) : list[i] = x

\* the numbers a and b are less than 10 steps apart
WithinTenSteps(a, b) == JsLess(MathAbs(NumSub(a, b)), NumMul(Num(10, 1), loop.step))

\* C14: the list the scan keeps is in increasing order of x, every element of
\* it is a flagged candidate, no two elements of it are less than 10 x step
\* apart, and every flagged candidate that is not in it has an element of the
\* list that was flagged before it and is less than 10 x step away.
C14_CleanedList ==
    (pc = "answered" /\ answer.op = "drawAsymptotes") =>
        /\ \A i \in 1..(Len(answer.list) - 1) : JsLess(answer.list[i], answer.list[i + 1])
        /\ \A i \in 1..Len(answer.list) : Occurs(answer.list[i], Flagged)
        /\ \A i, j \in 1..Len(answer.list) :
               i # j => ~WithinTenSteps(answer.list[i], answer.list[j])
        /\ \A j \in 1..Len(Flagged) :
               ~Occurs(Flagged[j], answer.list) =>
                   \E i \in 1..(j - 1) : /\ Occurs(Flagged[i], answer.list)
                                         /\ WithinTenSteps(Flagged[i], Flagged[j])

\* 1/(abs(x)-2) scanned with a position next to each pole on either side: four
\* candidates are flagged, the second and the fourth are dropped, and the two
\* that are kept are far apart
C14_TwoKeptTwoDropped ==
    /\ pc = "answered" /\ answer.op = "drawAsymptotes" /\ inputValue = "1/(abs(x)-2)"
    /\ Len(Flagged) = 4 /\ Len(answer.list) = 2
    /\ answer.list = <<Flagged[1], Flagged[3]>>
    /\ WithinTenSteps(Flagged[1], Flagged[2])
    /\ ~WithinTenSteps(Flagged[1], Flagged[3])

\* C15: for 1/x scanned over [-10, 10] with a threshold below the values next
\* to the pole, the scan returns exactly one candidate, and it is at most one
\* step of the scan away from 0.
C15_OneCandidateAtThePole ==
    (/\ pc = "answered" /\ answer.op = "drawAsymptotes" /\ inputValue = "1/x"
     /\ loop.xMax = Num(10, 1)
     /\ JsLess(loop.yThreshold, NumDiv(One, loop.step))) =>
        /\ Len(answer.list) = 1
        /\ JsLessEq(MathAbs(answer.list[1]), loop.step)

\* 1/x scanned over [-10, 10] with positions on either side of 0 and none at
\* 0: two positions are flagged and the first is the one returned
C15_PoleBetweenPositions ==
    /\ pc = "answered" /\ answer.op = "drawAsymptotes" /\ inputValue = "1/x"
    /\ loop.xMax = Num(10, 1) /\ loop.yThreshold = Num(15, 2)
    /\ Len(Flagged) = 2 /\ JsLess(Flagged[1], Zero) /\ JsLess(Zero, Flagged[2])
    /\ answer.list = <<Flagged[1]>>

\* the greatest number of turns of each sweep
SweepTurns(op) ==
    IF op = "analyzeDomain" THEN 401
    ELSE IF op = "analyzeRange" THEN 1001
    ELSE ScanSteps + 1

\* C16: every sweep stops after a bounded number of calls of the evaluator:
\* the sweeps of the analysers after their fixed ranges, and the scan for
\* asymptotes after about 2000 turns for every range xMin <= xMax that the
\* zoom and the width of the canvas produce, a range of width zero included.
C16_SweepsStop == loop.op # "" => loop.k <= SweepTurns(loop.op)

\* C17: in a scan with a positive threshold no candidate is pushed by method
\* 3: wherever its condition holds, method 1 or method 2 has pushed the
\* position and gone on to the next, so that every candidate comes from
\* method 1 or 2 and no position is pushed twice.
C17_MethodThreeAddsNothing ==
    (loop.op = "drawAsymptotes" /\ JsLess(Zero, loop.yThreshold)) =>
        /\ \A i \in 1..Len(locals.asymptotes) : locals.asymptotes[i].by \in {1, 2}
        /\ \A i, j \in 1..Len(Flagged) : i # j => Flagged[i] # Flagged[j]

\* the condition of method 3 held at a position that method 2 had pushed
C17_SpikeWhereMethodTwoPushed ==
    /\ loop.op = "drawAsymptotes" /\ JsLess(Zero, loop.yThreshold)
    /\ \E i \in 1..Len(locals.asymptotes) :
           locals.asymptotes[i].by = 2 /\ locals.asymptotes[i].spike

=============================================================================
